---- MODULE Spec2Model ----
(***************************************************************************)
(* A model of the trading bot's core: the portfolio ledger                 *)
(* (src/src/portfolio/manager.ts), the risk manager (the second half of    *)
(* src/src/strategies/sma-crossover.ts), the trade executor                *)
(* (src/unnamed/part_001), the indicators (src/src/indicators/index.ts),   *)
(* the two strategies (src/src/strategies) and the loop of the bot         *)
(* (src/src/index.ts).                                                     *)
(*                                                                         *)
(* JavaScript numbers are modelled as exact rationals n/d extended with    *)
(* the IEEE 754 special values the code can produce by dividing by zero:   *)
(* +Infinity (1/0), -Infinity (-1/0) and NaN (0/0).  Rounding to 53 bits   *)
(* is not part of this arithmetic; the last section models the risk        *)
(* assessment again in IEEE 754 doubles, each operation rounded to the     *)
(* nearest double.  Negative zero is not distinguished from zero.          *)
(***************************************************************************)
EXTENDS Integers, Sequences, FiniteSets, TLC

VARIABLES
    positions,         \* PortfolioManager.positions: the Map, in insertion order
    trades,            \* PortfolioManager.trades
    initialBalance,    \* PortfolioManager.initialBalance
    availableBalance,  \* PortfolioManager.availableBalance
    limits,            \* RiskManager.limits
    dailyPnL,          \* RiskManager.dailyPnL
    dailyResetTime,    \* RiskManager.dailyResetTime
    now,               \* the wall clock, Date.now()
    strategy,          \* TradingBot.strategy: the strategy object and its fields
    executor,          \* the TradeExecutor: isDryRun, and where a
                       \* checkStopLossOrders in progress stands
    bot,               \* TradingBot.isRunning, and where a start() in
                       \* progress stands: its locals and the calls it made
    last               \* the last call made: its name, arguments and result

vars == <<positions, trades, initialBalance, availableBalance, limits,
          dailyPnL, dailyResetTime, now, strategy, executor, bot, last>>

ledgerVars == <<positions, trades, initialBalance, availableBalance>>
riskVars == <<limits, dailyPnL, dailyResetTime>>

---------------------------------------------------------------------------
(* Numbers.                                                                *)

Abs(i) == IF i < 0 THEN -i ELSE i

Sgn(i) == IF i > 0 THEN 1 ELSE IF i < 0 THEN -1 ELSE 0

RECURSIVE GCD(_, _)
GCD(a, b) == IF b = 0 THEN a ELSE GCD(b, a % b)

\* The number n/d in lowest terms with a positive denominator; n/0 is
\* +Infinity, -Infinity or NaN by the sign of n.
Frac(n, d) ==
    IF d = 0 THEN [n |-> Sgn(n), d |-> 0]
    ELSE LET g == GCD(Abs(n), Abs(d))
         IN  [n |-> (Sgn(d) * n) \div g, d |-> Abs(d) \div g]

Num(i) == [n |-> i, d |-> 1]

Zero == Num(0)

NaN == [n |-> 0, d |-> 0]

isNaN(x) == x.d = 0 /\ x.n = 0

isFinite(x) == x.d > 0

Neg(x) == [n |-> -x.n, d |-> x.d]

\* x * y for finite x and y other than 0, g and h the common divisors of
\* the one's numerator and the other's denominator.
MulReduced(x, y, g, h) ==
    [n |-> (x.n \div g) * (y.n \div h), d |-> (x.d \div h) * (y.d \div g)]

Mul(x, y) ==
    IF x.d > 0 /\ y.d > 0 /\ x.n # 0 /\ y.n # 0
    THEN MulReduced(x, y, GCD(Abs(x.n), y.d), GCD(Abs(y.n), x.d))
    ELSE Frac(x.n * y.n, x.d * y.d)

\* 1/x: 1/0 is Infinity, 1/Infinity is 0.
Inv(x) == Frac(x.d, x.n)

Div(x, y) == Mul(x, Inv(y))

\* x + y for finite x and y, g the common divisor of their denominators.
AddReduced(x, y, g) ==
    Frac(x.n * (y.d \div g) + y.n * (x.d \div g), (x.d \div g) * y.d)

Add(x, y) ==
    IF x.d > 0 /\ y.d > 0 THEN AddReduced(x, y, GCD(x.d, y.d))
    ELSE IF isNaN(x) \/ isNaN(y) THEN NaN
    ELSE IF x.d = 0 /\ y.d = 0 THEN (IF x.n = y.n THEN x ELSE NaN)
    ELSE IF x.d = 0 THEN x ELSE y

Sub(x, y) == Add(x, Neg(y))

\* x < y; every comparison with NaN is false.
Lt(x, y) ==
    /\ ~isNaN(x)
    /\ ~isNaN(y)
    /\ IF x.d > 0 /\ y.d > 0
       THEN x.n * (y.d \div GCD(x.d, y.d)) < y.n * (x.d \div GCD(x.d, y.d))
       ELSE (IF x.d = 0 THEN x.n ELSE 0) < (IF y.d = 0 THEN y.n ELSE 0)

Le(x, y) == ~isNaN(x) /\ ~isNaN(y) /\ ~Lt(y, x)

Gt(x, y) == Lt(y, x)

Ge(x, y) == Le(y, x)

\* x === y
StrictEq(x, y) == ~isNaN(x) /\ ~isNaN(y) /\ x = y

---------------------------------------------------------------------------
(* The portfolio ledger.                                                   *)

\* A Trade's optional fee: <<>> when the field is absent, <<f>> otherwise.
\* The id and the timestamp of a Trade are not modelled: the ledger never
\* reads them.
NoFee == <<>>

\* trade.fee || 0
feeOrZero(fee) ==
    IF fee = NoFee THEN Zero
    ELSE IF isNaN(fee[1]) \/ fee[1] = Zero THEN Zero ELSE fee[1]

\* Map.get: the index of the symbol's entry, 0 when the Map has none.
IndexOf(ps, symbol) ==
    IF \E i \in 1..Len(ps) : ps[i].symbol = symbol
    THEN CHOOSE i \in 1..Len(ps) : ps[i].symbol = symbol
    ELSE 0

\* Map.delete
Remove(ps, i) == SubSeq(ps, 1, i - 1) \o SubSeq(ps, i + 1, Len(ps))

\* A bug the ledger could have: a quantity of 0 counted as LONG.
sideOfNonNegative(quantity) == IF Ge(quantity, Zero) THEN "LONG" ELSE "SHORT"

\* quantity > 0 ? 'LONG' : 'SHORT'
sideOf(quantity) == IF Gt(quantity, Zero) THEN "LONG" ELSE "SHORT"

\* A bug the ledger could have: the plain mean of the two prices.
averagePricePlainMean(existing, trade, totalQuantity) ==
    Div(Add(existing.avgPrice, trade.price), Num(2))

\* The average entry price after a BUY on an existing position.
averagePrice(existing, trade, totalQuantity) ==
    Div(Add(Mul(existing.avgPrice, existing.quantity),
            Mul(trade.price, trade.quantity)),
        totalQuantity)

\* A bug the ledger could have: a SELL that opens a position recorded with
\* the quantity of the trade, not its negative.
updatePositionUnsigned(ps, trade) ==
    LET i == IndexOf(ps, trade.symbol)
    IN  IF i = 0
        THEN Append(ps, [symbol        |-> trade.symbol,
                         quantity      |-> trade.quantity,
                         avgPrice      |-> trade.price,
                         currentPrice  |-> trade.price,
                         unrealizedPnL |-> Zero,
                         side          |-> IF trade.side = "BUY" THEN "LONG" ELSE "SHORT"])
        ELSE LET existing == ps[i]
             IN  IF trade.side = "BUY"
                 THEN LET totalQuantity == Add(existing.quantity, trade.quantity)
                      IN  [ps EXCEPT ![i] =
                              [existing EXCEPT
                                  !.avgPrice = averagePrice(existing, trade, totalQuantity),
                                  !.quantity = totalQuantity,
                                  !.side = sideOf(totalQuantity)]]
                 ELSE LET quantity == Sub(existing.quantity, trade.quantity)
                      IN  IF StrictEq(quantity, Zero)
                          THEN Remove(ps, i)
                          ELSE [ps EXCEPT ![i] = [existing EXCEPT !.quantity = quantity,
                                                                  !.side = sideOf(quantity)]]

\* PortfolioManager.updatePosition: the Map after the trade.
updatePosition(ps, trade) ==
    LET i == IndexOf(ps, trade.symbol)
    IN  IF i = 0
        THEN Append(ps, [symbol        |-> trade.symbol,
                         quantity      |-> IF trade.side = "BUY" THEN trade.quantity
                                           ELSE Neg(trade.quantity),
                         avgPrice      |-> trade.price,
                         currentPrice  |-> trade.price,
                         unrealizedPnL |-> Zero,
                         side          |-> IF trade.side = "BUY" THEN "LONG" ELSE "SHORT"])
        ELSE LET existing == ps[i]
             IN  IF trade.side = "BUY"
                 THEN LET totalQuantity == Add(existing.quantity, trade.quantity)
                      IN  [ps EXCEPT ![i] =
                              [existing EXCEPT
                                  !.avgPrice = averagePrice(existing, trade, totalQuantity),
                                  !.quantity = totalQuantity,
                                  !.side = sideOf(totalQuantity)]]
                 ELSE LET quantity == Sub(existing.quantity, trade.quantity)
                      IN  IF StrictEq(quantity, Zero)
                          THEN Remove(ps, i)
                          ELSE [ps EXCEPT ![i] = [existing EXCEPT !.quantity = quantity,
                                                                  !.side = sideOf(quantity)]]

\* A bug the ledger could have: a SELL credited with the fee added.
balanceAfterFeeAdded(balance, trade) ==
    IF trade.side = "BUY"
    THEN Sub(balance, Add(Mul(trade.quantity, trade.price), feeOrZero(trade.fee)))
    ELSE Add(balance, Add(Mul(trade.quantity, trade.price), feeOrZero(trade.fee)))

\* PortfolioManager.addTrade: the available balance after the trade.
balanceAfter(balance, trade) ==
    IF trade.side = "BUY"
    THEN Sub(balance, Add(Mul(trade.quantity, trade.price), feeOrZero(trade.fee)))
    ELSE Add(balance, Sub(Mul(trade.quantity, trade.price), feeOrZero(trade.fee)))

\* PortfolioManager.getTotalValue
RECURSIVE SumPositionValues(_, _)
SumPositionValues(total, ps) ==
    IF ps = <<>> THEN total
    ELSE SumPositionValues(Add(total, Mul(Head(ps).currentPrice, Head(ps).quantity)),
                           Tail(ps))

getTotalValue == SumPositionValues(availableBalance, positions)

\* PortfolioManager.canAfford
canAfford(symbol, quantity, price) ==
    LET cost == Mul(quantity, price)
        buffer == Mul(cost, Frac(1, 100))
    IN  Ge(availableBalance, Add(cost, buffer))

NoResult == [kind |-> "none"]

\* PortfolioManager.addTrade
addTrade(trade) ==
    /\ trades' = Append(trades, trade)
    /\ positions' = updatePosition(positions, trade)
    /\ availableBalance' = balanceAfter(availableBalance, trade)
    /\ last' = [op |-> "addTrade", arg |-> trade, res |-> NoResult]
    /\ UNCHANGED <<strategy, executor, initialBalance, limits, dailyPnL, dailyResetTime, now>>

\* PortfolioManager.updatePrice
updatePrice(symbol, currentPrice) ==
    LET i == IndexOf(positions, symbol)
    IN  /\ positions' =
              IF i = 0 THEN positions
              ELSE [positions EXCEPT ![i] =
                       [@ EXCEPT !.currentPrice = currentPrice,
                                 !.unrealizedPnL =
                                     Mul(Sub(currentPrice, positions[i].avgPrice),
                                         positions[i].quantity)]]
        /\ last' = [op |-> "updatePrice", arg |-> NoResult, res |-> NoResult]
        /\ UNCHANGED <<strategy, executor, trades, initialBalance, availableBalance, limits, dailyPnL,
                       dailyResetTime, now>>

---------------------------------------------------------------------------
(* The risk manager's clock.  Time is counted in ticks, TicksPerDay to the *)
(* day; the days begin at the multiples of TicksPerDay.                    *)

TicksPerDay == 2

\* today.setHours(0, 0, 0, 0): the last midnight at or before t.
Midnight(t) == (t \div TicksPerDay) * TicksPerDay

\* A bug the reset could have: a reset already at the boundary itself.
resetDailyTrackingAtBoundary(pnl, resetTime, t) ==
    IF t >= resetTime
    THEN [dailyPnL |-> Zero, dailyResetTime |-> Midnight(t) + TicksPerDay]
    ELSE [dailyPnL |-> pnl, dailyResetTime |-> resetTime]

\* RiskManager.resetDailyTracking at time t: the daily P&L and the day
\* boundary after it.
resetDailyTracking(pnl, resetTime, t) ==
    IF t > resetTime
    THEN [dailyPnL |-> Zero, dailyResetTime |-> Midnight(t) + TicksPerDay]
    ELSE [dailyPnL |-> pnl, dailyResetTime |-> resetTime]

\* The limits TradingBot's constructor reads when the environment sets none.
DefaultLimits ==
    [maxPositionSize   |-> Num(20),
     maxDailyLoss      |-> Num(5),
     stopLossPercent   |-> Num(3),
     takeProfitPercent |-> Num(6),
     maxOpenPositions  |-> 3]

\* INITIAL_BALANCE when the environment sets none.
DefaultBalance == 1000

\* new SMACrossoverStrategy(fastPeriod, slowPeriod)
SMACrossoverStrategy(fastPeriod, slowPeriod) ==
    [kind |-> "SMA", priceHistory |-> <<>>, fastPeriod |-> fastPeriod,
     slowPeriod |-> slowPeriod, maxHistorySize |-> 200]

\* new RSIStrategy(period, oversoldLevel, overboughtLevel)
RSIStrategy(period, oversoldLevel, overboughtLevel) ==
    [kind |-> "RSI", priceHistory |-> <<>>, period |-> period,
     oversoldLevel |-> oversoldLevel, overboughtLevel |-> overboughtLevel,
     maxHistorySize |-> 100, lastSignal |-> "HOLD"]

\* new TradeExecutor(exchange, portfolio, riskManager, tradeLogger, isDryRun);
\* pc is "idle" when no checkStopLossOrders is in progress, otherwise the
\* check that comes next for position i of the array it iterates over.
TradeExecutor(isDryRun) ==
    [isDryRun |-> isDryRun, pc |-> "idle", snapshot |-> <<>>, i |-> 0]

\* The fields of a new TradingBot that are its own: isRunning is false and
\* start() has not been called.  Of a start() in progress the record holds
\* pc, the call it stands at or awaits, and its locals iterationCount,
\* marketData (the price polled) and signal; polls counts the getMarketData
\* calls issued, steps lists the calls the current iteration has made,
\* stopAt holds polls and steps as they were when stop() was called from
\* outside, and thrown tells that the catch block has run.
TradingBot ==
    [isRunning |-> FALSE, pc |-> "new", iterationCount |-> 0,
     marketData |-> <<>>, signal |-> <<>>, feed |-> <<>>,
     polls |-> 0, steps |-> <<>>, stopAt |-> <<>>, thrown |-> FALSE]

\* The TradingBot constructed with a balance, risk limits, a strategy and
\* the dry-run flag, at time t.
ConstructedBot(balance, lim, t, strat, dryRun) ==
    /\ positions = <<>>
    /\ trades = <<>>
    /\ initialBalance = balance
    /\ availableBalance = balance
    /\ limits = lim
    /\ dailyPnL = resetDailyTracking(Zero, 0, t).dailyPnL
    /\ dailyResetTime = resetDailyTracking(Zero, 0, t).dailyResetTime
    /\ now = t
    /\ strategy = strat
    /\ executor = TradeExecutor(dryRun)
    /\ bot = TradingBot
    /\ last = [op |-> "new", arg |-> NoResult, res |-> NoResult]

\* new PortfolioManager(balance), then new RiskManager(lim) at time t.
Constructed(balance, lim, t) ==
    /\ strategy = SMACrossoverStrategy(12, 26)
    /\ executor = TradeExecutor(FALSE)
    /\ bot = TradingBot
    /\ positions = <<>>
    /\ trades = <<>>
    /\ initialBalance = balance
    /\ availableBalance = balance
    /\ limits = lim
    /\ dailyPnL = resetDailyTracking(Zero, 0, t).dailyPnL
    /\ dailyResetTime = resetDailyTracking(Zero, 0, t).dailyResetTime
    /\ now = t
    /\ last = [op |-> "new", arg |-> NoResult, res |-> NoResult]

---------------------------------------------------------------------------
(* The ledger on its own: any sequence of addTrade and updatePrice calls.  *)

MaxTrades == 3

Symbols == {"BTCUSDT", "ETHUSDT"}

\* The sizes, prices and fees of the trades: quantity, price, fee.
LedgerFills ==
    {<<Num(1), Num(100), NoFee>>, <<Num(2), Num(90), <<Num(1)>>>>,
     <<Num(1), Num(90), <<Num(0)>>>>}

LedgerPrices == {Num(90), Num(100)}

LedgerTrades ==
    {[symbol |-> s, side |-> a, quantity |-> f[1], price |-> f[2], fee |-> f[3]] :
        s \in Symbols, a \in {"BUY", "SELL"}, f \in LedgerFills}

InitLedger == Constructed(Num(DefaultBalance), DefaultLimits, 1)

AddTrade ==
    \E trade \in LedgerTrades :
        /\ Len(trades) < MaxTrades
        /\ addTrade(trade)
        /\ UNCHANGED bot

UpdatePrice ==
    \E symbol \in Symbols, price \in LedgerPrices : updatePrice(symbol, price) /\ UNCHANGED bot

NextLedger == AddTrade \/ UpdatePrice

SpecLedger == InitLedger /\ [][NextLedger]_vars

\* The trades of one symbol, in the order recorded.
TradesOf(symbol) ==
    LET isOf(t) == t.symbol = symbol IN SelectSeq(trades, isOf)

\* C1: after any sequence of addTrade calls no open position has a quantity
\* of exactly 0, whether the zero is reached by a SELL reducing a LONG or by
\* a BUY covering a SHORT.
C1_NoZeroQuantityPosition ==
    \A i \in 1..Len(positions) : ~StrictEq(positions[i].quantity, Zero)

\* C2: after any sequence of addTrade and updatePrice calls every position
\* has side LONG if and only if its quantity is greater than 0.
C2_SideLongIffPositive ==
    \A i \in 1..Len(positions) :
        (positions[i].side = "LONG") <=>
            (positions[i].quantity.d > 0 /\ positions[i].quantity.n > 0)

\* A SELL larger than the LONG it meets has turned the position SHORT.
C2_Witness ==
    /\ last.op = "addTrade"
    /\ last.arg.side = "SELL"
    /\ Len(TradesOf(last.arg.symbol)) = 2
    /\ TradesOf(last.arg.symbol)[1].side = "BUY"
    /\ \E i \in 1..Len(positions) :
           /\ positions[i].symbol = last.arg.symbol
           /\ positions[i].side = "SHORT"
           /\ positions[i].quantity = Num(-1)

\* The balance the trade history accounts for, from a starting balance.
RECURSIVE LedgerSum(_, _)
LedgerSum(balance, ts) ==
    IF ts = <<>> THEN balance
    ELSE LET t == Head(ts)
             notional == Mul(t.quantity, t.price)
             fee == IF t.fee = NoFee THEN Zero ELSE t.fee[1]
         IN  LedgerSum(IF t.side = "BUY" THEN Sub(balance, Add(notional, fee))
                       ELSE Add(balance, Sub(notional, fee)),
                       Tail(ts))

\* C3: the available balance is the initial balance minus quantity*price+fee
\* for every recorded BUY plus quantity*price-fee for every recorded SELL,
\* and the history is append-only, one entry longer after every addTrade.
C3_BalanceIsLedgerSum ==
    /\ [](availableBalance = LedgerSum(initialBalance, trades))
    /\ [][IF last'.op = "addTrade"
          THEN trades' = Append(trades, last'.arg)
          ELSE trades' = trades]_vars

\* A BUY without a fee and a SELL with one are both on record.
C3_Witness ==
    /\ Len(trades) = 3
    /\ \E i, j \in 1..Len(trades) :
           /\ trades[i].side = "BUY" /\ trades[i].fee = NoFee
           /\ trades[j].side = "SELL" /\ trades[j].fee # NoFee

\* C4: when the only trades of a symbol are two BUYs (qty1, price1) and
\* (qty2, price2), its position has quantity qty1+qty2 and an avgPrice of
\* (qty1*price1 + qty2*price2)/(qty1+qty2).
C4_TwoBuysWeightedAverage ==
    \A symbol \in Symbols :
        LET ts == TradesOf(symbol)
        IN  (Len(ts) = 2 /\ ts[1].side = "BUY" /\ ts[2].side = "BUY") =>
                LET i == IndexOf(positions, symbol)
                    total == Add(ts[1].quantity, ts[2].quantity)
                IN  /\ i # 0
                    /\ positions[i].quantity = total
                    /\ Mul(positions[i].avgPrice, total) =
                           Add(Mul(ts[1].quantity, ts[1].price),
                               Mul(ts[2].quantity, ts[2].price))

\* Two BUYs of different sizes at different prices: 1 at 100, then 2 at 90.
C4_Witness ==
    \E symbol \in Symbols :
        LET ts == TradesOf(symbol)
        IN  /\ Len(ts) = 2
            /\ ts[1].side = "BUY" /\ ts[1].quantity = Num(1) /\ ts[1].price = Num(100)
            /\ ts[2].side = "BUY" /\ ts[2].quantity = Num(2) /\ ts[2].price = Num(90)
            /\ IndexOf(positions, symbol) # 0
            /\ positions[IndexOf(positions, symbol)].avgPrice = Frac(280, 3)

---------------------------------------------------------------------------
(* The risk manager.                                                       *)

\* An assessment's optional recommendedSize: <<>> when absent.
NoSize == <<>>

Rejected(reason, size) ==
    [allowed |-> FALSE, reason |-> reason, recommendedSize |-> size]

Allowed == [allowed |-> TRUE, reason |-> "", recommendedSize |-> NoSize]

\* The reasons of a rejection, without the figures the code appends.
DailyLoss == "Daily loss limit reached"
TooLarge == "Position size too large"
TooMany == "Maximum open positions reached"
Insufficient == "Insufficient balance for trade"

\* this.dailyPnL <= -maxDailyLossAmount
dailyLossReached(pnl, totalValue) ==
    LET maxDailyLossAmount == Mul(totalValue, Div(limits.maxDailyLoss, Num(100)))
    IN  Le(pnl, Neg(maxDailyLossAmount))

\* positionSizePercent > this.limits.maxPositionSize
positionTooLarge(quantity, price, totalValue) ==
    LET tradeValue == Mul(quantity, price)
        positionSizePercent == Mul(Div(tradeValue, totalValue), Num(100))
    IN  Gt(positionSizePercent, limits.maxPositionSize)

\* maxAllowedValue / price
recommendedQuantity(price, totalValue) ==
    LET maxAllowedValue == Mul(totalValue, Div(limits.maxPositionSize, Num(100)))
    IN  Div(maxAllowedValue, price)

\* A bug the gate could have: the limit itself still allowed.
tooManyPositionsStrict == Len(positions) > limits.maxOpenPositions

\* openPositions >= this.limits.maxOpenPositions
tooManyPositions == Len(positions) >= limits.maxOpenPositions

\* A bug the gate could have: the SELL checked like the BUY.
cannotAffordEitherSide(symbol, side, quantity, price) ==
    ~canAfford(symbol, quantity, price)

\* side === 'BUY' && !portfolio.canAfford(symbol, quantity, price)
cannotAfford(symbol, side, quantity, price) ==
    side = "BUY" /\ ~canAfford(symbol, quantity, price)

\* A bug the assessment could have: the open-position count checked first.
assessCountFirst(pnl, symbol, side, quantity, price) ==
    LET totalValue == getTotalValue
    IN  IF tooManyPositions
        THEN Rejected(TooMany, NoSize)
        ELSE IF dailyLossReached(pnl, totalValue)
        THEN Rejected(DailyLoss, NoSize)
        ELSE IF positionTooLarge(quantity, price, totalValue)
        THEN Rejected(TooLarge, <<recommendedQuantity(price, totalValue)>>)
        ELSE IF cannotAfford(symbol, side, quantity, price)
        THEN Rejected(Insufficient, NoSize)
        ELSE Allowed

\* A bug the assessment could have: the open-position count checked only
\* for a symbol that has no position yet.
assessOpeningOnly(pnl, symbol, side, quantity, price) ==
    LET totalValue == getTotalValue
    IN  IF dailyLossReached(pnl, totalValue)
        THEN Rejected(DailyLoss, NoSize)
        ELSE IF positionTooLarge(quantity, price, totalValue)
        THEN Rejected(TooLarge, <<recommendedQuantity(price, totalValue)>>)
        ELSE IF tooManyPositions /\ IndexOf(positions, symbol) = 0
        THEN Rejected(TooMany, NoSize)
        ELSE IF cannotAfford(symbol, side, quantity, price)
        THEN Rejected(Insufficient, NoSize)
        ELSE Allowed

\* A bug the assessment could have: a trade that is too large allowed at
\* the recommended size.
assessCapped(pnl, symbol, side, quantity, price) ==
    LET totalValue == getTotalValue
    IN  IF dailyLossReached(pnl, totalValue)
        THEN Rejected(DailyLoss, NoSize)
        ELSE IF positionTooLarge(quantity, price, totalValue)
        THEN [Allowed EXCEPT !.recommendedSize = <<recommendedQuantity(price, totalValue)>>]
        ELSE IF tooManyPositions
        THEN Rejected(TooMany, NoSize)
        ELSE IF cannotAfford(symbol, side, quantity, price)
        THEN Rejected(Insufficient, NoSize)
        ELSE Allowed

\* RiskManager.assessTradeRisk after its call of resetDailyTracking: the
\* assessment, given the daily P&L the reset leaves.
assess(pnl, symbol, side, quantity, price) ==
    LET totalValue == getTotalValue
    IN  IF dailyLossReached(pnl, totalValue)
        THEN Rejected(DailyLoss, NoSize)
        ELSE IF positionTooLarge(quantity, price, totalValue)
        THEN Rejected(TooLarge, <<recommendedQuantity(price, totalValue)>>)
        ELSE IF tooManyPositions
        THEN Rejected(TooMany, NoSize)
        ELSE IF cannotAfford(symbol, side, quantity, price)
        THEN Rejected(Insufficient, NoSize)
        ELSE Allowed

\* RiskManager.assessTradeRisk
assessTradeRisk(symbol, side, quantity, price) ==
    LET reset == resetDailyTracking(dailyPnL, dailyResetTime, now)
    IN  /\ dailyPnL' = reset.dailyPnL
        /\ dailyResetTime' = reset.dailyResetTime
        /\ last' = [op  |-> "assessTradeRisk",
                    arg |-> [symbol |-> symbol, side |-> side,
                             quantity |-> quantity, price |-> price],
                    res |-> assess(reset.dailyPnL, symbol, side, quantity, price)]
        /\ UNCHANGED <<strategy, executor, positions, trades, initialBalance, availableBalance,
                       limits, now>>

\* RiskManager.updateDailyPnL
updateDailyPnL(pnl) ==
    /\ dailyPnL' = Add(dailyPnL, pnl)
    /\ last' = [op |-> "updateDailyPnL", arg |-> pnl, res |-> NoResult]
    /\ UNCHANGED <<strategy, executor, positions, trades, initialBalance, availableBalance,
                   limits, dailyResetTime, now>>

\* A bug the predicate could have: the boundary left out.
stopLossReachedStrict(position) ==
    IF position.side = "LONG"
    THEN Gt(Mul(Div(Sub(position.avgPrice, position.currentPrice), position.avgPrice),
                Num(100)),
            limits.stopLossPercent)
    ELSE Gt(Mul(Div(Sub(position.currentPrice, position.avgPrice), position.avgPrice),
                Num(100)),
            limits.stopLossPercent)

\* RiskManager.checkStopLoss: the value returned.
stopLossReached(position) ==
    IF position.side = "LONG"
    THEN LET lossPercent ==
                 Mul(Div(Sub(position.avgPrice, position.currentPrice), position.avgPrice),
                     Num(100))
         IN  Ge(lossPercent, limits.stopLossPercent)
    ELSE LET lossPercent ==
                 Mul(Div(Sub(position.currentPrice, position.avgPrice), position.avgPrice),
                     Num(100))
         IN  Ge(lossPercent, limits.stopLossPercent)

\* RiskManager.checkTakeProfit: the value returned.
takeProfitReached(position) ==
    IF position.side = "LONG"
    THEN LET profitPercent ==
                 Mul(Div(Sub(position.currentPrice, position.avgPrice), position.avgPrice),
                     Num(100))
         IN  Ge(profitPercent, limits.takeProfitPercent)
    ELSE LET profitPercent ==
                 Mul(Div(Sub(position.avgPrice, position.currentPrice), position.avgPrice),
                     Num(100))
         IN  Ge(profitPercent, limits.takeProfitPercent)

\* RiskManager.checkStopLoss
checkStopLoss(position) ==
    /\ last' = [op |-> "checkStopLoss", arg |-> position,
                res |-> [value |-> stopLossReached(position)]]
    /\ UNCHANGED <<strategy, executor, positions, trades, initialBalance, availableBalance, limits,
                   dailyPnL, dailyResetTime, now>>

\* RiskManager.checkTakeProfit
checkTakeProfit(position) ==
    /\ last' = [op |-> "checkTakeProfit", arg |-> position,
                res |-> [value |-> takeProfitReached(position)]]
    /\ UNCHANGED <<strategy, executor, positions, trades, initialBalance, availableBalance, limits,
                   dailyPnL, dailyResetTime, now>>

---------------------------------------------------------------------------
(* The risk manager's gates over a ledger that trades and price updates    *)
(* have built.                                                             *)

MaxRiskTrades == 2

\* The limits of this configuration: the defaults with MAX_OPEN_POSITIONS=2.
RiskLimits == [DefaultLimits EXCEPT !.maxOpenPositions = 2]

RiskTrades ==
    {[symbol |-> s, side |-> f[1], quantity |-> f[2], price |-> Num(100), fee |-> NoFee] :
        s \in Symbols, f \in {<<"BUY", Num(9)>>, <<"BUY", Num(1)>>, <<"SELL", Num(1)>>}}

RiskPrices == {Num(50)}

AssessSymbols == {"BTCUSDT", "SOLUSDT"}

AssessQuantities == {Num(1), Num(2), Num(3)}

AssessPrices == {Num(100)}

InitRisk == Constructed(Num(DefaultBalance), RiskLimits, 1)

RiskTrade ==
    \E trade \in RiskTrades :
        /\ Len(trades) < MaxRiskTrades
        /\ addTrade(trade)
        /\ UNCHANGED bot

RiskPrice ==
    \E symbol \in Symbols, price \in RiskPrices :
        /\ IndexOf(positions, symbol) # 0
        /\ updatePrice(symbol, price)
        /\ UNCHANGED bot

\* A loss of 50 is realized, once.
RiskLoss ==
    /\ dailyPnL = Zero
    /\ updateDailyPnL(Num(-50))
    /\ UNCHANGED bot

AssessTradeRisk ==
    \E symbol \in AssessSymbols, side \in {"BUY", "SELL"},
       quantity \in AssessQuantities, price \in AssessPrices :
        assessTradeRisk(symbol, side, quantity, price) /\ UNCHANGED bot

NextRisk == RiskTrade \/ RiskPrice \/ RiskLoss \/ AssessTradeRisk

SpecRisk == InitRisk /\ [][NextRisk]_vars

\* The gates as the claims state them, for the assessment in `last`.
AssessedNotional == Mul(last.arg.quantity, last.arg.price)

DailyLossGateFails ==
    Le(Mul(dailyPnL, Num(100)), Neg(Mul(getTotalValue, limits.maxDailyLoss)))

PositionSizeGateFails ==
    Gt(Mul(Div(AssessedNotional, getTotalValue), Num(100)), limits.maxPositionSize)

OpenPositionGateFails == Len(positions) >= limits.maxOpenPositions

AffordabilityGateFails ==
    /\ last.arg.side = "BUY"
    /\ Lt(availableBalance, Mul(AssessedNotional, Frac(101, 100)))

\* C5: the gates are evaluated in the order daily-loss, position-size,
\* open-position-count, affordability; the reason is that of the first gate
\* that fails, and a recommendedSize is returned exactly when the
\* position-size gate is the one that rejects.
C5_FirstFailingGateDecides ==
    last.op = "assessTradeRisk" =>
        /\ last.res.reason =
               (IF DailyLossGateFails THEN DailyLoss
                ELSE IF PositionSizeGateFails THEN TooLarge
                ELSE IF OpenPositionGateFails THEN TooMany
                ELSE IF AffordabilityGateFails THEN Insufficient
                ELSE "")
        /\ last.res.allowed = (last.res.reason = "")
        /\ (last.res.recommendedSize # NoSize) <=> (last.res.reason = TooLarge)

\* The last three gates all fail and the position-size gate answers.
C5_Witness ==
    /\ last.op = "assessTradeRisk"
    /\ ~DailyLossGateFails
    /\ PositionSizeGateFails
    /\ OpenPositionGateFails
    /\ AffordabilityGateFails
    /\ last.res.reason = TooLarge
    /\ last.res.recommendedSize # NoSize

\* C8: when the daily-loss and position-size gates pass and the number of
\* open positions is at least maxOpenPositions, the trade is rejected, for
\* either side and whether or not the symbol has an open position.
C8_OpenPositionLimitRejects ==
    (/\ last.op = "assessTradeRisk"
     /\ ~DailyLossGateFails
     /\ ~PositionSizeGateFails
     /\ Len(positions) >= limits.maxOpenPositions) =>
        /\ ~last.res.allowed
        /\ last.res.reason = TooMany

\* A SELL of a symbol that has a position is rejected at the limit.
C8_Witness ==
    /\ last.op = "assessTradeRisk"
    /\ last.arg.side = "SELL"
    /\ IndexOf(positions, last.arg.symbol) # 0
    /\ Len(positions) = limits.maxOpenPositions
    /\ last.res.reason = TooMany

\* C9: when the earlier gates pass, a BUY is rejected if and only if
\* availableBalance < quantity*price*1.01, the buffer of canAfford; a SELL
\* is never rejected by the affordability gate.
C9_AffordabilityGate ==
    (/\ last.op = "assessTradeRisk"
     /\ ~DailyLossGateFails
     /\ ~PositionSizeGateFails
     /\ ~OpenPositionGateFails) =>
        /\ last.arg.side = "BUY" =>
               /\ ~last.res.allowed <=>
                      Lt(availableBalance, Mul(AssessedNotional, Frac(101, 100)))
               /\ last.res.allowed <=>
                      canAfford(last.arg.symbol, last.arg.quantity, last.arg.price)
        /\ last.arg.side = "SELL" => last.res.allowed
        /\ last.res.reason \in {"", Insufficient}

\* A BUY of 1 at 100 with 100 left is rejected: 100 < 101.
C9_Witness ==
    /\ last.op = "assessTradeRisk"
    /\ last.arg.side = "BUY"
    /\ last.arg.quantity = Num(1)
    /\ availableBalance = Num(100)
    /\ last.res.reason = Insufficient

---------------------------------------------------------------------------
(* The daily P&L: updates, assessments and the passing of time, over a     *)
(* ledger whose total value is 1000 or, after a BUY of 9 at 100 and a fall *)
(* of the price to 50, 550.                                                *)

MaxNow == 5

MaxDailyPnL == 100

PnLAmounts == {Num(-50), Num(25)}

InitDaily == \E t \in 1..TicksPerDay : Constructed(Num(DefaultBalance), DefaultLimits, t)

DailyTrade ==
    /\ trades = <<>>
    /\ addTrade([symbol |-> "BTCUSDT", side |-> "BUY", quantity |-> Num(9),
                 price |-> Num(100), fee |-> NoFee])
    /\ UNCHANGED bot

DailyPrice ==
    /\ IndexOf(positions, "BTCUSDT") # 0
    /\ updatePrice("BTCUSDT", Num(50))
    /\ UNCHANGED bot

UpdateDailyPnL ==
    \E pnl \in PnLAmounts :
        /\ Le(Num(-MaxDailyPnL), Add(dailyPnL, pnl))
        /\ Le(Add(dailyPnL, pnl), Num(MaxDailyPnL))
        /\ updateDailyPnL(pnl)
        /\ UNCHANGED bot

\* Time passes.
Tick ==
    /\ now < MaxNow
    /\ now' = now + 1
    /\ last' = [op |-> "tick", arg |-> NoResult, res |-> NoResult]
    /\ UNCHANGED <<strategy, executor, positions, trades, initialBalance, availableBalance, limits,
                   dailyPnL, dailyResetTime>>
    /\ UNCHANGED bot

DailyAssess ==
    \E side \in {"BUY", "SELL"} : assessTradeRisk("BTCUSDT", side, Num(1), Num(100)) /\ UNCHANGED bot

NextDaily == DailyTrade \/ DailyPrice \/ UpdateDailyPnL \/ Tick \/ DailyAssess

SpecDaily == InitDaily /\ [][NextDaily]_vars

\* C7: the running daily P&L grows by the amount of each updateDailyPnL; it
\* is reset to 0 by an assessTradeRisk made past the stored day boundary,
\* which moves the boundary past the present, and by nothing else; and an
\* assessment is rejected for the daily loss whenever the running value is
\* at most -(totalValue * maxDailyLoss / 100).
C7_DailyPnLAndLazyReset ==
    /\ [](last.op = "assessTradeRisk" =>
              /\ DailyLossGateFails => (~last.res.allowed /\ last.res.reason = DailyLoss)
              /\ last.res.reason = DailyLoss => DailyLossGateFails)
    /\ [][CASE last'.op = "updateDailyPnL" ->
                  /\ dailyPnL' = Add(dailyPnL, last'.arg)
                  /\ dailyResetTime' = dailyResetTime
            [] last'.op = "assessTradeRisk" ->
                  IF now > dailyResetTime
                  THEN dailyPnL' = Zero /\ dailyResetTime' > now
                  ELSE dailyPnL' = dailyPnL /\ dailyResetTime' = dailyResetTime
            [] OTHER ->
                  dailyPnL' = dailyPnL /\ dailyResetTime' = dailyResetTime]_vars

\* At the day boundary itself a loss of 50 still stands and rejects.
C7_Witness ==
    /\ last.op = "assessTradeRisk"
    /\ now = dailyResetTime
    /\ dailyPnL = Num(-50)
    /\ last.res.reason = DailyLoss

---------------------------------------------------------------------------
(* Stop-loss and take-profit over the positions of a ledger.               *)

MaxStopTrades == 2

StopTrades ==
    {[symbol |-> s, side |-> f[1], quantity |-> f[2], price |-> f[3], fee |-> NoFee] :
        s \in Symbols,
        f \in {<<"BUY", Num(1), Num(100)>>, <<"SELL", Num(1), Num(100)>>,
               <<"BUY", Num(2), Num(90)>>}}

StopPrices == {Frac(969, 10), Num(97), Frac(195, 2), Num(103), Num(106), Num(94)}

InitStops == Constructed(Num(DefaultBalance), DefaultLimits, 1)

StopTrade ==
    \E trade \in StopTrades :
        /\ Len(trades) < MaxStopTrades
        /\ addTrade(trade)
        /\ UNCHANGED bot

StopPrice ==
    \E symbol \in Symbols, price \in StopPrices :
        /\ IndexOf(positions, symbol) # 0
        /\ updatePrice(symbol, price)
        /\ UNCHANGED bot

CheckStopLoss == \E i \in 1..Len(positions) : checkStopLoss(positions[i]) /\ UNCHANGED bot

CheckTakeProfit == \E i \in 1..Len(positions) : checkTakeProfit(positions[i]) /\ UNCHANGED bot

NextStops == StopTrade \/ StopPrice \/ CheckStopLoss \/ CheckTakeProfit

SpecStops == InitStops /\ [][NextStops]_vars

\* The move from avgPrice to currentPrice against the position, and in its
\* favour, as a percentage of avgPrice.
AdverseMovePercent(p) ==
    Mul(Div(IF p.side = "LONG" THEN Sub(p.avgPrice, p.currentPrice)
            ELSE Sub(p.currentPrice, p.avgPrice),
            p.avgPrice),
        Num(100))

FavorableMovePercent(p) ==
    Mul(Div(IF p.side = "LONG" THEN Sub(p.currentPrice, p.avgPrice)
            ELSE Sub(p.avgPrice, p.currentPrice),
            p.avgPrice),
        Num(100))

\* C10: checkStopLoss is true if and only if the adverse move is at least
\* stopLossPercent, the boundary included; checkTakeProfit likewise for the
\* favourable move and takeProfitPercent; neither changes any state.  A LONG
\* at 100 with a stop of 3 per cent triggers at 96.9 and not at 97.5.
C10_StopLossAndTakeProfit ==
    /\ [](/\ last.op = "checkStopLoss" =>
                /\ last.res.value <=>
                       Ge(AdverseMovePercent(last.arg), limits.stopLossPercent)
                /\ (/\ last.arg.side = "LONG"
                    /\ last.arg.avgPrice = Num(100)
                    /\ limits.stopLossPercent = Num(3)) =>
                       /\ last.arg.currentPrice = Frac(969, 10) => last.res.value
                       /\ last.arg.currentPrice = Frac(975, 10) => ~last.res.value
          /\ last.op = "checkTakeProfit" =>
                last.res.value <=>
                    Ge(FavorableMovePercent(last.arg), limits.takeProfitPercent))
    /\ [][last'.op \in {"checkStopLoss", "checkTakeProfit"} =>
              UNCHANGED <<positions, trades, initialBalance, availableBalance,
                          limits, dailyPnL, dailyResetTime, now>>]_vars

\* A LONG at 100 that has fallen to 97, exactly 3 per cent, is stopped.
C10_Witness ==
    /\ last.op = "checkStopLoss"
    /\ last.arg.side = "LONG"
    /\ last.arg.avgPrice = Num(100)
    /\ last.arg.currentPrice = Num(97)
    /\ last.res.value

---------------------------------------------------------------------------
(* The trade executor (src/unnamed/part_001).                              *)

\* x || y for an optional number x: y when x is absent, 0 or NaN.
orElse(x, y) ==
    IF x = <<>> THEN y
    ELSE IF isNaN(x[1]) \/ x[1] = Zero THEN y ELSE x[1]

\* An Order as placeOrder resolves it; price is <<>> when the field is
\* absent.
Order(status, price) == [thrown |-> FALSE, status |-> status, price |-> price]

\* placeOrder rejects.
OrderError == [thrown |-> TRUE, status |-> "", price |-> <<>>]

\* placeOrder is not called.
NoOrder == [thrown |-> FALSE, status |-> "", price |-> <<>>]

\* An ExecutionResult; trade is <<>> when the field is absent.
Failure(reason) ==
    [thrown |-> FALSE, success |-> FALSE, reason |-> reason, trade |-> <<>>]

Success(trade) ==
    [thrown |-> FALSE, success |-> TRUE, reason |-> "", trade |-> <<trade>>]

\* executeSignal rejects: an exception of the trade logger leaves it.
Thrown == [thrown |-> TRUE, success |-> FALSE, reason |-> "", trade |-> <<>>]

NoActionRequired == "No action required"

orderStatusReason(status) == "Order status: " \o status

ExecutionFailed == "Execution failed"

\* The calls executeSignal makes to its collaborators; that of
\* assessTradeRisk with the assessment returned.
AssessCall(symbol, side, quantity, price, riskAssessment) ==
    [op |-> "assessTradeRisk", symbol |-> symbol, side |-> side,
     quantity |-> quantity, price |-> price, returned |-> riskAssessment]

PlaceOrderCall(trade) ==
    [op |-> "placeOrder", symbol |-> trade.symbol, side |-> trade.side,
     quantity |-> trade.quantity, price |-> trade.price]

AddTradeCall(trade) ==
    [op |-> "addTrade", symbol |-> trade.symbol, side |-> trade.side,
     quantity |-> trade.quantity, price |-> trade.price]

\* What a call of executeSignal does: the result it returns, the calls it
\* has made and the trade it has added to the ledger (<<>> when none).
Outcome(result, calls, applied) ==
    [result |-> result, calls |-> calls, applied |-> applied]

\* A bug the executor could have: a HOLD signal traded like any other.
noActionNever(signal) == FALSE

\* signal.action === 'HOLD'
noAction(signal) == signal.action = "HOLD"

\* A bug the executor could have: the whole available balance as the base.
calculatePositionSizeWholeBalance(signal, price) ==
    LET confidenceMultiplier == Add(Frac(1, 2), Mul(signal.confidence, Frac(1, 2)))
    IN  Div(Mul(availableBalance, confidenceMultiplier), price)

\* TradeExecutor.calculatePositionSize
calculatePositionSize(signal, price) ==
    LET baseAmount == Mul(availableBalance, Frac(1, 10))
        confidenceMultiplier == Add(Frac(1, 2), Mul(signal.confidence, Frac(1, 2)))
        positionValue == Mul(baseAmount, confidenceMultiplier)
    IN  Div(positionValue, price)

\* A bug the executor could have: a fee of 1% of the trade value.
calculateFeeOnePercent(quantity, price) ==
    LET tradeValue == Mul(quantity, price)
    IN  Mul(tradeValue, Frac(1, 100))

\* TradeExecutor.calculateFee
calculateFee(quantity, price) ==
    LET tradeValue == Mul(quantity, price)
    IN  Mul(tradeValue, Frac(1, 1000))

\* TradeExecutor.simulateTrade
simulateTrade(trade, calls, logFails) ==
    IF logFails
    THEN Outcome(Thrown, calls \o <<AddTradeCall(trade)>>, <<trade>>)
    ELSE Outcome(Success(trade), calls \o <<AddTradeCall(trade)>>, <<trade>>)

\* A bug the executor could have: every order the exchange returns taken
\* as filled.
orderFilledWhenReturned(order) == TRUE

\* order.status === 'FILLED'
orderFilled(order) == order.status = "FILLED"

\* trade.price = order.price || trade.price
filledTrade(trade, order) ==
    [trade EXCEPT !.price = orElse(order.price, trade.price)]

\* TradeExecutor.executeLiveTrade
executeLiveTrade(trade, calls, order, logFails) ==
    IF order.thrown
    THEN Outcome(Failure(ExecutionFailed), calls \o <<PlaceOrderCall(trade)>>, <<>>)
    ELSE IF orderFilled(order)
    THEN IF logFails
         THEN Outcome(Failure(ExecutionFailed),
                      calls \o <<PlaceOrderCall(trade),
                                 AddTradeCall(filledTrade(trade, order))>>,
                      <<filledTrade(trade, order)>>)
         ELSE Outcome(Success(filledTrade(trade, order)),
                      calls \o <<PlaceOrderCall(trade),
                                 AddTradeCall(filledTrade(trade, order))>>,
                      <<filledTrade(trade, order)>>)
    ELSE Outcome(Failure(orderStatusReason(order.status)),
                 calls \o <<PlaceOrderCall(trade)>>, <<>>)

\* A bug the executor could have: its own words for a rejection.
blockedReasonOwnWords(riskAssessment) == "Trade blocked by risk manager"

\* The reason of the result when the risk manager does not allow the trade.
blockedReason(riskAssessment) == riskAssessment.reason

\* TradeExecutor.executeSignal from the risk assessment on: what it does
\* with the assessment of the position size it has calculated.
executeAssessed(signal, symbol, currentPrice, positionSize, riskAssessment, order, logFails) ==
    IF ~riskAssessment.allowed
    THEN Outcome(Failure(blockedReason(riskAssessment)),
                 <<AssessCall(symbol, signal.action, positionSize, currentPrice,
                              riskAssessment)>>,
                 <<>>)
    ELSE LET trade == [symbol   |-> symbol,
                       side     |-> signal.action,
                       quantity |-> orElse(riskAssessment.recommendedSize, positionSize),
                       price    |-> currentPrice,
                       fee      |-> <<calculateFee(positionSize, currentPrice)>>]
             calls == <<AssessCall(symbol, signal.action, positionSize, currentPrice,
                                   riskAssessment)>>
         IN  IF executor.isDryRun
             THEN simulateTrade(trade, calls, logFails)
             ELSE executeLiveTrade(trade, calls, order, logFails)

\* TradeExecutor.executeSignal: what the call does in the current state,
\* given the order the exchange would answer with and whether the trade
\* logger fails.
executeSignalOutcome(signal, symbol, currentPrice, order, logFails) ==
    IF noAction(signal)
    THEN Outcome(Failure(NoActionRequired), <<>>, <<>>)
    ELSE executeAssessed(signal, symbol, currentPrice,
                         calculatePositionSize(signal, currentPrice),
                         assess(resetDailyTracking(dailyPnL, dailyResetTime, now).dailyPnL,
                                symbol, signal.action,
                                calculatePositionSize(signal, currentPrice),
                                currentPrice),
                         order, logFails)

\* What the executor could do and does not: report the fee of a recorded
\* trade to the risk manager, as updateDailyPnL(-fee).
executedReportingFee(outcome) ==
    /\ trades' = IF outcome.applied = <<>> THEN trades
                 ELSE Append(trades, outcome.applied[1])
    /\ positions' = IF outcome.applied = <<>> THEN positions
                    ELSE updatePosition(positions, outcome.applied[1])
    /\ availableBalance' = IF outcome.applied = <<>> THEN availableBalance
                           ELSE balanceAfter(availableBalance, outcome.applied[1])
    /\ dailyPnL' = IF outcome.calls = <<>> THEN dailyPnL
                   ELSE IF outcome.applied = <<>>
                   THEN resetDailyTracking(dailyPnL, dailyResetTime, now).dailyPnL
                   ELSE Sub(resetDailyTracking(dailyPnL, dailyResetTime, now).dailyPnL,
                            feeOrZero(outcome.applied[1].fee))
    /\ dailyResetTime' = IF outcome.calls = <<>> THEN dailyResetTime
                         ELSE resetDailyTracking(dailyPnL, dailyResetTime, now).dailyResetTime
    /\ UNCHANGED <<strategy, initialBalance, limits, now>>

\* The ledger and the risk manager after a call of executeSignal with the
\* given outcome: assessTradeRisk has reset the daily tracking, addTrade
\* has recorded the trade.
executed(outcome) ==
    /\ trades' = IF outcome.applied = <<>> THEN trades
                 ELSE Append(trades, outcome.applied[1])
    /\ positions' = IF outcome.applied = <<>> THEN positions
                    ELSE updatePosition(positions, outcome.applied[1])
    /\ availableBalance' = IF outcome.applied = <<>> THEN availableBalance
                           ELSE balanceAfter(availableBalance, outcome.applied[1])
    /\ dailyPnL' = IF outcome.calls = <<>> THEN dailyPnL
                   ELSE resetDailyTracking(dailyPnL, dailyResetTime, now).dailyPnL
    /\ dailyResetTime' = IF outcome.calls = <<>> THEN dailyResetTime
                         ELSE resetDailyTracking(dailyPnL, dailyResetTime, now).dailyResetTime
    /\ UNCHANGED <<strategy, initialBalance, limits, now>>

\* A call of executeSignal with the given arguments and outcome.
executeSignalAs(arg, outcome) ==
    /\ executed(outcome)
    /\ last' = [op |-> "executeSignal", arg |-> arg, res |-> outcome]
    /\ UNCHANGED executor

\* TradeExecutor.executeSignal
executeSignal(signal, symbol, currentPrice, tag, order, logFails) ==
    executeSignalAs([signal |-> signal, symbol |-> symbol,
                     currentPrice |-> currentPrice, strategy |-> tag,
                     order |-> order, logFails |-> logFails],
                    executeSignalOutcome(signal, symbol, currentPrice, order, logFails))

\* A bug the sweep could have: a signal on the side of the position.
closingSignalSameSide(position) ==
    [action     |-> IF position.side = "LONG" THEN "BUY" ELSE "SELL",
     confidence |-> Num(1)]

\* The signal checkStopLossOrders builds to close a position.
closingSignal(position) ==
    [action     |-> IF position.side = "LONG" THEN "SELL" ELSE "BUY",
     confidence |-> Num(1)]

\* The object of a position after a call of executeSignal for its symbol.
\* The array checkStopLossOrders iterates over holds the objects of the Map:
\* updatePosition changes the object in place, and an entry it deletes keeps
\* the quantity 0 it was deleted for and the side it had.  An object that is
\* no longer in the Map is not changed any more.
positionAfter(position, outcome) ==
    IF \/ outcome.applied = <<>>
       \/ IndexOf(positions, position.symbol) = 0
       \/ positions[IndexOf(positions, position.symbol)] # position
    THEN position
    ELSE IF IndexOf(updatePosition(positions, outcome.applied[1]), position.symbol) = 0
    THEN [position EXCEPT !.quantity = Zero]
    ELSE updatePosition(positions, outcome.applied[1])
             [IndexOf(updatePosition(positions, outcome.applied[1]), position.symbol)]

\* The executor when checkStopLossOrders is over.
sweepOver == [executor EXCEPT !.pc = "idle", !.snapshot = <<>>, !.i = 0]

\* checkStopLossOrders up to its loop: const positions = getAllPositions()
checkStopLossOrders ==
    /\ executor.pc = "idle"
    /\ executor' = IF positions = <<>> THEN sweepOver
                   ELSE [executor EXCEPT !.pc = "stopLoss", !.snapshot = positions,
                                         !.i = 1]
    /\ last' = [op  |-> "checkStopLossOrders",
                arg |-> NoResult,
                res |-> [calls |-> <<>>, returned |-> positions = <<>>,
                         thrown |-> FALSE]]
    /\ UNCHANGED <<strategy, positions, trades, initialBalance, availableBalance,
                   limits, dailyPnL, dailyResetTime, now>>

\* The executor after one of the two checks of the position it visits:
\* the take-profit check follows the stop-loss check, the next position or
\* the end of the loop follows the take-profit check.
afterCheck(position) ==
    IF executor.pc = "stopLoss"
    THEN [executor EXCEPT !.pc = "takeProfit", !.snapshot[executor.i] = position]
    ELSE IF executor.i < Len(executor.snapshot)
    THEN [executor EXCEPT !.pc = "stopLoss", !.snapshot[executor.i] = position,
                          !.i = executor.i + 1]
    ELSE sweepOver

\* One check of checkStopLossOrders that leaves the position alone.
sweepSkip(position) ==
    /\ executor' = afterCheck(position)
    /\ last' = [last EXCEPT !.res.returned = (afterCheck(position).pc = "idle")]
    /\ UNCHANGED <<strategy, positions, trades, initialBalance, availableBalance,
                   limits, dailyPnL, dailyResetTime, now>>

\* One check of checkStopLossOrders that closes the position:
\* await this.executeSignal(signal, position.symbol, position.currentPrice, tag).
\* An exception of executeSignal leaves checkStopLossOrders.
sweepClose(position, tag, outcome) ==
    /\ executed(outcome)
    /\ executor' = IF outcome.result.thrown THEN sweepOver
                   ELSE afterCheck(positionAfter(position, outcome))
    /\ last' = [last EXCEPT
                   !.res.calls = Append(@, [position     |-> position,
                                            signal       |-> closingSignal(position),
                                            symbol       |-> position.symbol,
                                            currentPrice |-> position.currentPrice,
                                            strategy     |-> tag,
                                            outcome      |-> outcome]),
                   !.res.thrown = outcome.result.thrown,
                   !.res.returned = (~outcome.result.thrown
                                     /\ afterCheck(position).pc = "idle")]

\* if (this.riskManager.checkStopLoss(position)) { ... }
sweepStopLoss(position, order, logFails) ==
    /\ executor.pc = "stopLoss"
    /\ IF stopLossReached(position)
       THEN sweepClose(position, "STOP_LOSS",
                       executeSignalOutcome(closingSignal(position), position.symbol,
                                            position.currentPrice, order, logFails))
       ELSE sweepSkip(position)

\* if (this.riskManager.checkTakeProfit(position)) { ... }
sweepTakeProfit(position, order, logFails) ==
    /\ executor.pc = "takeProfit"
    /\ IF takeProfitReached(position)
       THEN sweepClose(position, "TAKE_PROFIT",
                       executeSignalOutcome(closingSignal(position), position.symbol,
                                            position.currentPrice, order, logFails))
       ELSE sweepSkip(position)

---------------------------------------------------------------------------
(* executeSignal over a ledger that trades and price updates have built,   *)
(* in dry-run and in live mode.  The exchange answers an order in any of   *)
(* the ways its interface allows.                                          *)

MaxExecTrades == 2

MaxExecNow == 3

\* The amounts the executor trades are a tenth of the balance, scaled by the
\* confidence, less a fee of a thousandth: the executor acts while the
\* balance is a fraction whose numerator is at most MaxNumerator.
MaxNumerator == 40000

Representable(x) == x.d > 0 /\ Abs(x.n) <= MaxNumerator

\* The limits of this configuration: the defaults with MAX_OPEN_POSITIONS=2.
ExecLimits == [DefaultLimits EXCEPT !.maxOpenPositions = 2]

ExecFills ==
    {[symbol |-> f[1], side |-> f[2], quantity |-> f[3], price |-> Num(100), fee |-> NoFee] :
        f \in {<<"BTCUSDT", "BUY", Num(1)>>, <<"BTCUSDT", "SELL", Num(9)>>,
                <<"ETHUSDT", "BUY", Num(1)>>}}

ExecPrices == {[symbol |-> "BTCUSDT", price |-> Num(200)]}

Signals ==
    {[action |-> "HOLD", confidence |-> Zero],
     [action |-> "BUY", confidence |-> Frac(1, 2)],
     [action |-> "BUY", confidence |-> Num(1)],
     [action |-> "SELL", confidence |-> Num(1)]}

\* What the exchange and the trade logger do when they are called: the
\* answer to the order and whether logTrade fails.  In dry-run no order is
\* placed.
Answers ==
    IF executor.isDryRun
    THEN {[order |-> NoOrder, logFails |-> f] : f \in BOOLEAN}
    ELSE {[order |-> o, logFails |-> FALSE] :
             o \in {OrderError, Order("NEW", <<>>), Order("CANCELLED", <<>>),
                    Order("FILLED", <<>>), Order("FILLED", <<Num(101)>>)}}
         \cup {[order |-> Order("FILLED", <<>>), logFails |-> TRUE]}

InitExec ==
    \E dryRun \in BOOLEAN :
        ConstructedBot(Num(DefaultBalance), ExecLimits, 1, SMACrossoverStrategy(12, 26),
                       dryRun)

\* The ledger before the executor acts: positions opened at 100, and the
\* prices they have moved to.
ExecTrade ==
    \E trade \in ExecFills :
        /\ Len(trades) < MaxExecTrades
        /\ IndexOf(positions, trade.symbol) = 0
        /\ \A i \in 1..Len(trades) : trades[i].fee = NoFee
        /\ addTrade(trade)
        /\ UNCHANGED bot

ExecPrice ==
    \E p \in ExecPrices :
        /\ IndexOf(positions, p.symbol) # 0
        /\ \A i \in 1..Len(trades) : trades[i].fee = NoFee
        /\ updatePrice(p.symbol, p.price)
        /\ UNCHANGED bot

\* A day passes before the first trade.
ExecTick ==
    /\ now + TicksPerDay <= MaxExecNow
    /\ trades = <<>>
    /\ now' = now + TicksPerDay
    /\ last' = [op |-> "tick", arg |-> NoResult, res |-> NoResult]
    /\ UNCHANGED <<strategy, executor, positions, trades, initialBalance,
                   availableBalance, limits, dailyPnL, dailyResetTime>>
    /\ UNCHANGED bot

ExecuteSignal ==
    \E signal \in Signals, symbol \in Symbols, price \in {Num(100)},
       answer \in Answers :
        /\ Representable(availableBalance)
        /\ executeSignal(signal, symbol, price, "SMA_CROSSOVER", answer.order,
                         answer.logFails)
        /\ UNCHANGED bot

NextExec == ExecTrade \/ ExecPrice \/ ExecTick \/ ExecuteSignal

SpecExec == InitExec /\ [][NextExec]_vars

\* The calls of an outcome to the named collaborator operation.
CallsTo(outcome, op) == {k \in 1..Len(outcome.calls) : outcome.calls[k].op = op}

\* C11: in live mode a trade is applied to the ledger only when placeOrder
\* has returned an order with status FILLED; when the order has any other
\* status or placeOrder throws, executeSignal returns success = false and
\* the ledger (balance, positions, trade history) is unchanged.
C11_LiveTradeOnlyWhenFilled ==
    [][(last'.op = "executeSignal" /\ ~executor.isDryRun) =>
          /\ (<<positions, trades, availableBalance>>' # <<positions, trades, availableBalance>>)
                => /\ CallsTo(last'.res, "placeOrder") # {}
                   /\ ~last'.arg.order.thrown
                   /\ last'.arg.order.status = "FILLED"
          /\ (last'.arg.order.thrown \/ last'.arg.order.status # "FILLED")
                => /\ ~last'.res.result.thrown
                   /\ ~last'.res.result.success
                   /\ UNCHANGED <<positions, trades, availableBalance>>]_vars

\* A live order that came back NEW: nothing was recorded.
C11_Witness ==
    /\ last.op = "executeSignal"
    /\ ~executor.isDryRun
    /\ CallsTo(last.res, "placeOrder") # {}
    /\ last.arg.order.status = "NEW"
    /\ ~last.res.result.success
    /\ positions # <<>>
    /\ \A i \in 1..Len(trades) : trades[i].fee = NoFee

\* C12: when assessTradeRisk does not allow the trade, executeSignal
\* returns success = false with exactly the reason of the risk manager,
\* places no order, and leaves the ledger unchanged.
C12_RiskRejectionReturned ==
    [][last'.op = "executeSignal" =>
          \A k \in CallsTo(last'.res, "assessTradeRisk") :
              ~last'.res.calls[k].returned.allowed
                  => /\ ~last'.res.result.thrown
                     /\ ~last'.res.result.success
                     /\ last'.res.result.reason = last'.res.calls[k].returned.reason
                     /\ CallsTo(last'.res, "placeOrder") = {}
                     /\ CallsTo(last'.res, "addTrade") = {}
                     /\ UNCHANGED <<positions, trades, initialBalance,
                                    availableBalance>>]_vars

\* A live signal that the position-size gate rejected.
C12_Witness ==
    /\ last.op = "executeSignal"
    /\ ~executor.isDryRun
    /\ last.arg.order.status = "FILLED"
    /\ last.res.result = Failure(TooLarge)
    /\ \E k \in CallsTo(last.res, "assessTradeRisk") :
           last.res.calls[k].returned.recommendedSize # NoSize

\* C13: a HOLD signal is a no-op: executeSignal returns success = false
\* with the reason "No action required", calls neither the risk manager nor
\* the exchange, and leaves the ledger and the risk manager's state
\* unchanged.
C13_HoldIsNoOp ==
    [][(last'.op = "executeSignal" /\ last'.arg.signal.action = "HOLD") =>
          /\ last'.res.result = Failure("No action required")
          /\ last'.res.calls = <<>>
          /\ UNCHANGED <<positions, trades, initialBalance, availableBalance>>
          /\ UNCHANGED <<limits, dailyPnL, dailyResetTime>>]_vars

\* A HOLD signal on the day after the daily tracking was last reset: an
\* assessment would have moved the day boundary.
C13_Witness ==
    /\ last.op = "executeSignal"
    /\ last.arg.signal.action = "HOLD"
    /\ now > dailyResetTime
    /\ positions # <<>>
    /\ ~last.res.result.success

\* The candidate size as C20 states it, for a signal at a price.
CandidateSize(signal, price) ==
    Div(Mul(Mul(availableBalance, Frac(10, 100)),
            Add(Frac(1, 2), Mul(signal.confidence, Frac(1, 2)))),
        price)

\* What C20 says of the size submitted and of the trade recorded, given
\* the candidate size and the price the trade is to be recorded at.
SizedAndRecorded(arg, outcome, candidate, price, recorded) ==
    \A k \in CallsTo(outcome, "assessTradeRisk") :
        /\ outcome.calls[k].quantity = candidate
        /\ outcome.calls[k].price = arg.currentPrice
        /\ (outcome.calls[k].returned.allowed /\ outcome.applied # <<>>)
              => /\ recorded.quantity =
                       IF outcome.calls[k].returned.recommendedSize # NoSize
                       THEN outcome.calls[k].returned.recommendedSize[1]
                       ELSE candidate
                 /\ recorded.price = price
                 /\ recorded.side = arg.signal.action
                 /\ recorded.symbol = arg.symbol

\* C20 as stated: for a non-HOLD signal the candidate size submitted to the
\* risk manager is (availableBalance * 0.10) * (0.5 + confidence * 0.5) /
\* price, and on approval the recorded trade has the recommendedSize when
\* one is present and the candidate size otherwise, the price of the tick
\* and the side of the signal.
C20_SizeAndTradeAtTickPrice ==
    [][(last'.op = "executeSignal" /\ last'.arg.signal.action # "HOLD") =>
          /\ CallsTo(last'.res, "assessTradeRisk") # {}
          /\ last'.res.applied # <<>> => trades' = Append(trades, last'.res.applied[1])
          /\ SizedAndRecorded(last'.arg, last'.res,
                              CandidateSize(last'.arg.signal, last'.arg.currentPrice),
                              last'.arg.currentPrice,
                              trades'[Len(trades')])]_vars

\* C20, amended: as stated, except that the trade is recorded at the price
\* of the tick in dry-run mode only; in live mode it is recorded at the
\* price of the filled order when the order reports one, and at the price
\* of the tick otherwise.
C20_SizeAndTradeAtFillPrice ==
    [][(last'.op = "executeSignal" /\ last'.arg.signal.action # "HOLD") =>
          /\ CallsTo(last'.res, "assessTradeRisk") # {}
          /\ last'.res.applied # <<>> => trades' = Append(trades, last'.res.applied[1])
          /\ SizedAndRecorded(last'.arg, last'.res,
                              CandidateSize(last'.arg.signal, last'.arg.currentPrice),
                              IF executor.isDryRun \/ last'.arg.order.price = <<>>
                              THEN last'.arg.currentPrice
                              ELSE last'.arg.order.price[1],
                              trades'[Len(trades')])]_vars

\* A live BUY at half confidence, filled at 101 for a tick at 100.
C20_Witness ==
    /\ last.op = "executeSignal"
    /\ ~executor.isDryRun
    /\ last.arg.signal = [action |-> "BUY", confidence |-> Frac(1, 2)]
    /\ last.arg.currentPrice = Num(100)
    /\ last.res.result.success
    /\ trades # <<>>
    /\ trades[Len(trades)].price = Num(101)
    /\ trades[Len(trades)].side = "BUY"
    /\ trades[Len(trades)].fee # NoFee

---------------------------------------------------------------------------
(* checkStopLossOrders over a ledger of positions opened at 100 whose      *)
(* prices have moved, in dry-run and in live mode.                         *)

MaxSweepTrades == 2

\* A closing trade is a tenth of the balance, less a fee of a thousandth:
\* the sweep acts while the balance is a fraction whose numerator is at
\* most MaxSweepNumerator.
MaxSweepNumerator == 150000

SweepRepresentable(x) == x.d > 0 /\ Abs(x.n) <= MaxSweepNumerator

SweepFills ==
    {[symbol |-> s, side |-> side, quantity |-> Num(1), price |-> Num(100),
      fee |-> NoFee] : s \in Symbols, side \in {"BUY", "SELL"}}

SweepPrices == {Num(80), Num(90), Num(110)}

\* What the exchange and the trade logger do when the sweep calls them; a
\* filled order reports no price.
SweepAnswers ==
    IF executor.isDryRun
    THEN {[order |-> NoOrder, logFails |-> f] : f \in BOOLEAN}
    ELSE {[order |-> o, logFails |-> FALSE] :
             o \in {OrderError, Order("NEW", <<>>), Order("FILLED", <<>>)}}
         \cup {[order |-> Order("FILLED", <<>>), logFails |-> TRUE]}

InitSweep ==
    \E dryRun \in BOOLEAN :
        ConstructedBot(Num(DefaultBalance), DefaultLimits, 1,
                       SMACrossoverStrategy(12, 26), dryRun)

\* The ledger before the sweep: positions opened at 100, and the prices
\* they have moved to.
SweepTrade ==
    \E trade \in SweepFills :
        /\ executor.pc = "idle"
        /\ Len(trades) < MaxSweepTrades
        /\ IndexOf(positions, trade.symbol) = 0
        /\ \A i \in 1..Len(trades) : trades[i].fee = NoFee
        /\ addTrade(trade)
        /\ UNCHANGED bot

SweepPrice ==
    \E symbol \in Symbols, price \in SweepPrices :
        /\ executor.pc = "idle"
        /\ IndexOf(positions, symbol) # 0
        /\ positions[IndexOf(positions, symbol)].currentPrice = Num(100)
        /\ \A i \in 1..Len(trades) : trades[i].fee = NoFee
        /\ updatePrice(symbol, price)
        /\ UNCHANGED bot

CheckStopLossOrders == checkStopLossOrders /\ UNCHANGED bot

SweepStopLoss ==
    \E answer \in SweepAnswers :
        /\ executor.pc = "stopLoss"
        /\ stopLossReached(executor.snapshot[executor.i])
              => SweepRepresentable(availableBalance)
        /\ sweepStopLoss(executor.snapshot[executor.i], answer.order, answer.logFails)
        /\ UNCHANGED bot

SweepTakeProfit ==
    \E answer \in SweepAnswers :
        /\ executor.pc = "takeProfit"
        /\ takeProfitReached(executor.snapshot[executor.i])
              => SweepRepresentable(availableBalance)
        /\ sweepTakeProfit(executor.snapshot[executor.i], answer.order, answer.logFails)
        /\ UNCHANGED bot

NextSweep ==
    \/ SweepTrade
    \/ SweepPrice
    \/ CheckStopLossOrders
    \/ SweepStopLoss
    \/ SweepTakeProfit

SpecSweep == InitSweep /\ [][NextSweep]_vars

\* The executeSignal calls of the sweep in `last`.
SweepCalls == last.res.calls

\* C17: every position for which checkStopLoss or checkTakeProfit is true
\* at the time of the sweep, and whose closing signal is executed
\* successfully in dry-run mode, is closed by the sweep: its symbol is not
\* in the open-position set when the sweep returns.
C17_ClosedWhenSweepReturns ==
    (last.op = "checkStopLossOrders" /\ last.res.returned /\ executor.isDryRun)
        => \A k \in 1..Len(SweepCalls) :
               SweepCalls[k].outcome.result.success
                   => IndexOf(positions, SweepCalls[k].symbol) = 0

\* C18: with stopLossPercent > 0 and takeProfitPercent > 0 a sweep issues at
\* most one closing signal per position: the STOP_LOSS and the TAKE_PROFIT
\* executeSignal calls are never both made for the same position in the
\* same sweep, also when the stop-loss trade has changed the position's
\* quantity or side.
C18_OneClosingSignalPerPosition ==
    (/\ last.op = "checkStopLossOrders"
     /\ Gt(limits.stopLossPercent, Zero)
     /\ Gt(limits.takeProfitPercent, Zero))
        => \A j, k \in 1..Len(SweepCalls) :
               (SweepCalls[j].strategy = "STOP_LOSS" /\ SweepCalls[k].strategy = "TAKE_PROFIT")
                   => SweepCalls[j].symbol # SweepCalls[k].symbol

\* What C19 says of one check of the sweep: a call of executeSignal is made
\* only when the predicate is true of the position visited, with the
\* opposite side, confidence 1.0, the symbol and the current price of the
\* position and the tag of the check; otherwise nothing is traded.
CheckedAsStated(position, reached, tag, callsBefore, callsAfter, nothingTraded) ==
    IF reached
    THEN /\ Len(callsAfter) = Len(callsBefore) + 1
         /\ SubSeq(callsAfter, 1, Len(callsBefore)) = callsBefore
         /\ callsAfter[Len(callsAfter)].signal.action =
               (IF position.side = "LONG" THEN "SELL" ELSE "BUY")
         /\ callsAfter[Len(callsAfter)].signal.confidence = Num(1)
         /\ callsAfter[Len(callsAfter)].symbol = position.symbol
         /\ callsAfter[Len(callsAfter)].currentPrice = position.currentPrice
         /\ callsAfter[Len(callsAfter)].strategy = tag
    ELSE /\ callsAfter = callsBefore
         /\ nothingTraded

\* C19: for each open position the sweep visits, executeSignal is called
\* only if checkStopLoss or checkTakeProfit is true of it; each call carries
\* the opposite side of the position (SELL for LONG, BUY for SHORT),
\* confidence 1.0, the position's symbol and currentPrice, and the tag
\* STOP_LOSS or TAKE_PROFIT of the predicate; a position for which neither
\* predicate is true causes no trade.
C19_ClosingSignalsAsStated ==
    [][executor.pc # "idle" =>
          CheckedAsStated(executor.snapshot[executor.i],
                          IF executor.pc = "stopLoss"
                          THEN stopLossReached(executor.snapshot[executor.i])
                          ELSE takeProfitReached(executor.snapshot[executor.i]),
                          IF executor.pc = "stopLoss" THEN "STOP_LOSS" ELSE "TAKE_PROFIT",
                          last.res.calls, last'.res.calls,
                          UNCHANGED <<positions, trades, availableBalance>>)]_vars

\* A sweep over a LONG position that has fallen and a SHORT position that
\* has fallen: a STOP_LOSS SELL for the one, a TAKE_PROFIT BUY for the other.
C19_Witness ==
    /\ last.op = "checkStopLossOrders"
    /\ last.res.returned
    /\ Len(SweepCalls) = 2
    /\ SweepCalls[1].strategy = "STOP_LOSS"
    /\ SweepCalls[1].signal.action = "SELL"
    /\ SweepCalls[1].position.side = "LONG"
    /\ SweepCalls[2].strategy = "TAKE_PROFIT"
    /\ SweepCalls[2].signal.action = "BUY"
    /\ SweepCalls[2].position.side = "SHORT"
    /\ SweepCalls[1].symbol # SweepCalls[2].symbol

---------------------------------------------------------------------------
(* The indicators (src/src/indicators/index.ts) and the two strategies     *)
(* (src/src/strategies/sma-crossover.ts, src/src/strategies/rsi-strategy.ts). *)

\* prices.slice(from - 1, to).reduce((a, b) => a + b, 0)
RECURSIVE SumSlice(_, _, _)
SumSlice(prices, from, to) ==
    IF from > to THEN Zero
    ELSE Add(SumSlice(prices, from, to - 1), prices[to])

\* A bug the indicator could have: a value for every price, the first ones
\* averaged over the prices there are.
calculateSMAPartialWindows(prices, period) ==
    [k \in 1..Len(prices) |->
        IF k < period THEN Div(SumSlice(prices, 1, k), Num(k))
        ELSE Div(SumSlice(prices, k - period + 1, k), Num(period))]

\* TechnicalIndicators.calculateSMA
calculateSMA(prices, period) ==
    IF Len(prices) < period THEN <<>>
    ELSE [k \in 1..(Len(prices) - period + 1) |->
             Div(SumSlice(prices, k, k + period - 1), Num(period))]

\* The gains and losses of calculateRSI: one for each price after the first.
gainsOf(prices) ==
    [i \in 1..(Len(prices) - 1) |->
        IF Gt(Sub(prices[i + 1], prices[i]), Zero)
        THEN Sub(prices[i + 1], prices[i]) ELSE Zero]

lossesOf(prices) ==
    [i \in 1..(Len(prices) - 1) |->
        IF Lt(Sub(prices[i + 1], prices[i]), Zero)
        THEN Neg(Sub(prices[i + 1], prices[i])) ELSE Zero]

\* One value of calculateRSI, from the average gain and the average loss.
rsiOf(avgGain, avgLoss) ==
    IF StrictEq(avgLoss, Zero) THEN Num(100)
    ELSE Sub(Num(100), Div(Num(100), Add(Num(1), Div(avgGain, avgLoss))))

\* TechnicalIndicators.calculateRSI
calculateRSI(prices, period) ==
    IF Len(prices) - 1 < period THEN <<>>
    ELSE [k \in 1..(Len(prices) - period) |->
             rsiOf(Div(SumSlice(gainsOf(prices), k, k + period - 1), Num(period)),
                   Div(SumSlice(lossesOf(prices), k, k + period - 1), Num(period)))]

\* Math.min
mathMin(x, y) ==
    IF isNaN(x) \/ isNaN(y) THEN NaN ELSE IF Lt(x, y) THEN x ELSE y

\* A TradingSignal; the timestamp is not modelled.
TradingSignal(action, confidence) == [action |-> action, confidence |-> confidence]

Hold == TradingSignal("HOLD", Zero)

\* A bug the strategies could have: the newest samples discarded.
pushPriceKeepOldest(history, price, maxHistorySize) ==
    SubSeq(Append(history, price), 1,
           IF Len(history) + 1 > maxHistorySize THEN maxHistorySize
           ELSE Len(history) + 1)

\* this.priceHistory after push and slice(-maxHistorySize)
pushPrice(history, price, maxHistorySize) ==
    IF Len(history) + 1 > maxHistorySize
    THEN SubSeq(Append(history, price), Len(history) + 2 - maxHistorySize,
                Len(history) + 1)
    ELSE Append(history, price)

\* A bug the strategy could have: a crossover only from strictly below.
crossedAboveStrict(previousFast, previousSlow, currentFast, currentSlow) ==
    Lt(previousFast, previousSlow) /\ Gt(currentFast, currentSlow)

\* wasBelowSlow && isAboveSlow
crossedAbove(previousFast, previousSlow, currentFast, currentSlow) ==
    Le(previousFast, previousSlow) /\ Gt(currentFast, currentSlow)

\* wasAboveSlow && isBelowSlow
crossedBelow(previousFast, previousSlow, currentFast, currentSlow) ==
    Ge(previousFast, previousSlow) /\ Lt(currentFast, currentSlow)

\* SMACrossoverStrategy.generateSignal from the two series on.
smaSignal(fastSMA, slowSMA) ==
    IF Len(fastSMA) < 2 \/ Len(slowSMA) < 2 THEN Hold
    ELSE IF crossedAbove(fastSMA[Len(fastSMA) - 1], slowSMA[Len(slowSMA) - 1],
                         fastSMA[Len(fastSMA)], slowSMA[Len(slowSMA)])
    THEN TradingSignal("BUY",
             mathMin(Mul(Div(Sub(fastSMA[Len(fastSMA)], slowSMA[Len(slowSMA)]),
                             slowSMA[Len(slowSMA)]), Num(100)),
                     Num(1)))
    ELSE IF crossedBelow(fastSMA[Len(fastSMA) - 1], slowSMA[Len(slowSMA) - 1],
                         fastSMA[Len(fastSMA)], slowSMA[Len(slowSMA)])
    THEN TradingSignal("SELL",
             mathMin(Mul(Div(Sub(slowSMA[Len(slowSMA)], fastSMA[Len(fastSMA)]),
                             fastSMA[Len(fastSMA)]), Num(100)),
                     Num(1)))
    ELSE Hold

\* SMACrossoverStrategy.generateSignal
smaGenerateSignal(s) ==
    smaSignal(calculateSMA(s.priceHistory, s.fastPeriod),
              calculateSMA(s.priceHistory, s.slowPeriod))

\* SMACrossoverStrategy.addPriceData: the strategy after the call and the
\* signal returned.
smaAddPriceData(s, price) ==
    LET pushed == [s EXCEPT !.priceHistory = pushPrice(s.priceHistory, price,
                                                       s.maxHistorySize)]
    IN  [strategy |-> pushed,
         signal   |-> IF Len(pushed.priceHistory) < s.slowPeriod THEN Hold
                      ELSE smaGenerateSignal(pushed)]

\* A bug the strategy could have: a BUY at every oversold tick.
oversoldLevelTriggered(s, currentRSI, previousRSI) ==
    Le(currentRSI, s.oversoldLevel)

\* currentRSI <= oversoldLevel && previousRSI > oversoldLevel
\*     && lastSignal !== 'BUY'
oversoldCrossed(s, currentRSI, previousRSI) ==
    /\ Le(currentRSI, s.oversoldLevel)
    /\ Gt(previousRSI, s.oversoldLevel)
    /\ s.lastSignal # "BUY"

\* currentRSI >= overboughtLevel && previousRSI < overboughtLevel
\*     && lastSignal !== 'SELL'
overboughtCrossed(s, currentRSI, previousRSI) ==
    /\ Ge(currentRSI, s.overboughtLevel)
    /\ Lt(previousRSI, s.overboughtLevel)
    /\ s.lastSignal # "SELL"

\* A bug the strategy could have: lastSignal never reset.
neutralZoneNever(s, currentRSI) == FALSE

\* currentRSI > oversoldLevel && currentRSI < overboughtLevel
neutralZone(s, currentRSI) ==
    Gt(currentRSI, s.oversoldLevel) /\ Lt(currentRSI, s.overboughtLevel)

\* RSIStrategy.generateSignal from the last two RSI values on: the strategy
\* after the call and the signal returned.
rsiSignal(s, currentRSI, previousRSI) ==
    IF oversoldCrossed(s, currentRSI, previousRSI)
    THEN [strategy |-> [s EXCEPT !.lastSignal = "BUY"],
          signal   |-> TradingSignal("BUY",
                           mathMin(Div(Sub(s.oversoldLevel, currentRSI), s.oversoldLevel),
                                   Num(1)))]
    ELSE IF overboughtCrossed(s, currentRSI, previousRSI)
    THEN [strategy |-> [s EXCEPT !.lastSignal = "SELL"],
          signal   |-> TradingSignal("SELL",
                           mathMin(Div(Sub(currentRSI, s.overboughtLevel),
                                       Sub(Num(100), s.overboughtLevel)),
                                   Num(1)))]
    ELSE IF neutralZone(s, currentRSI)
    THEN [strategy |-> [s EXCEPT !.lastSignal = "HOLD"], signal |-> Hold]
    ELSE [strategy |-> s, signal |-> Hold]

\* RSIStrategy.generateSignal
rsiGenerateSignal(s, rsiValues) ==
    IF Len(rsiValues) < 2 THEN [strategy |-> s, signal |-> Hold]
    ELSE rsiSignal(s, rsiValues[Len(rsiValues)], rsiValues[Len(rsiValues) - 1])

\* RSIStrategy.addPriceData: the strategy after the call and the signal
\* returned.
rsiAddPriceData(s, price) ==
    LET pushed == [s EXCEPT !.priceHistory = pushPrice(s.priceHistory, price,
                                                       s.maxHistorySize)]
    IN  IF Len(pushed.priceHistory) < s.period + 1
        THEN [strategy |-> pushed, signal |-> Hold]
        ELSE rsiGenerateSignal(pushed, calculateRSI(pushed.priceHistory, s.period))

\* The signals of the addPriceData calls so far, each with the price it was
\* called with and the lastSignal the strategy is left with ("" for a
\* strategy that has none).
SignalsSoFar == IF last.op = "addPriceData" THEN last.res.signals ELSE <<>>

\* What one call of addPriceData adds to the signals so far.
signalEntry(price, after) ==
    [price      |-> price,
     action     |-> after.signal.action,
     confidence |-> after.signal.confidence,
     lastSignal |-> IF after.strategy.kind = "RSI" THEN after.strategy.lastSignal
                    ELSE ""]

\* A call of addPriceData that leaves the strategy as given and returns the
\* signal given.
addPriceDataAs(price, after) ==
    /\ strategy' = after.strategy
    /\ last' = [op  |-> "addPriceData",
                arg |-> price,
                res |-> [signal  |-> after.signal,
                         signals |-> Append(SignalsSoFar, signalEntry(price, after))]]
    /\ UNCHANGED <<executor, positions, trades, initialBalance, availableBalance,
                   limits, dailyPnL, dailyResetTime, now>>

\* strategy.addPriceData(marketData)
addPriceData(price) ==
    IF strategy.kind = "SMA"
    THEN addPriceDataAs(price, smaAddPriceData(strategy, price))
    ELSE addPriceDataAs(price, rsiAddPriceData(strategy, price))

---------------------------------------------------------------------------
(* The strategies over every series of up to MaxSamples prices: the SMA    *)
(* crossover with the periods 2 and 3, the RSI strategy with the period 2  *)
(* and the levels 30 and 70.                                               *)

MaxSamples == 7

SamplePrices == {Num(1), Num(2), Num(3), Num(4)}

Strategies == {SMACrossoverStrategy(2, 3), RSIStrategy(2, Num(30), Num(70))}

InitStrategy ==
    \E s \in Strategies :
        ConstructedBot(Num(DefaultBalance), DefaultLimits, 1, s, TRUE)

AddPriceData ==
    \E price \in SamplePrices :
        /\ Len(strategy.priceHistory) < MaxSamples
        /\ addPriceData(price)
        /\ UNCHANGED bot

NextStrategy == AddPriceData

SpecStrategy == InitStrategy /\ [][NextStrategy]_vars

\* The smallest history a strategy computes a signal from.
MinimumWindow(s) == IF s.kind = "SMA" THEN s.slowPeriod ELSE s.period + 1

\* C14: for both strategies, every call of addPriceData made while the
\* price history holds fewer samples than the minimum window (slowPeriod for
\* the SMA crossover, period + 1 for the RSI strategy) returns the action
\* HOLD with the confidence 0.
C14_HoldBelowMinimumWindow ==
    [][(last'.op = "addPriceData"
        /\ Len(strategy.priceHistory) < MinimumWindow(strategy))
       => (last'.res.signal.action = "HOLD"
           /\ last'.res.signal.confidence = Zero)]_vars

\* The SMA crossover has been fed rising prices up to its minimum window and
\* has answered HOLD to the last of them (the RSI strategy falling ones).
C14_Witness ==
    /\ last.op = "addPriceData"
    /\ last.res.signal.action = "HOLD"
    /\ \/ /\ strategy.kind = "SMA"
          /\ strategy.priceHistory = <<Num(1), Num(1), Num(2)>>
       \/ /\ strategy.kind = "RSI"
          /\ strategy.priceHistory = <<Num(3), Num(2), Num(1)>>

RECURSIVE Total(_)
Total(values) ==
    IF values = <<>> THEN Zero ELSE Add(Head(values), Total(Tail(values)))

\* The mean of the n prices of a history that end with its price number e.
MeanEnding(history, n, e) ==
    Div(Total(SubSeq(history, e - n + 1, e)), Num(n))

\* The two averages of a history have a previous and a current value.
BothAveragesTwice(s) ==
    /\ Len(s.priceHistory) >= s.fastPeriod + 1
    /\ Len(s.priceHistory) >= s.slowPeriod + 1

FastBelowThenAbove(s) ==
    /\ BothAveragesTwice(s)
    /\ Le(MeanEnding(s.priceHistory, s.fastPeriod, Len(s.priceHistory) - 1),
          MeanEnding(s.priceHistory, s.slowPeriod, Len(s.priceHistory) - 1))
    /\ Gt(MeanEnding(s.priceHistory, s.fastPeriod, Len(s.priceHistory)),
          MeanEnding(s.priceHistory, s.slowPeriod, Len(s.priceHistory)))

FastAboveThenBelow(s) ==
    /\ BothAveragesTwice(s)
    /\ Ge(MeanEnding(s.priceHistory, s.fastPeriod, Len(s.priceHistory) - 1),
          MeanEnding(s.priceHistory, s.slowPeriod, Len(s.priceHistory) - 1))
    /\ Lt(MeanEnding(s.priceHistory, s.fastPeriod, Len(s.priceHistory)),
          MeanEnding(s.priceHistory, s.slowPeriod, Len(s.priceHistory)))

ScenarioPrices == <<Num(1), Num(1), Num(1), Num(2), Num(3), Num(4), Num(1)>>

ScenarioActions == <<"HOLD", "HOLD", "HOLD", "BUY", "HOLD", "HOLD", "SELL">>

\* C15: addPriceData of the SMA crossover returns BUY if and only if the
\* previous fast average is at most the previous slow one and the current
\* fast average is above the current slow one, SELL if and only if the
\* previous fast average is at least the previous slow one and the current
\* fast average is below the current slow one, and HOLD otherwise; with the
\* periods 2 and 3 the prices 1, 1, 1, 2, 3, 4, 1 give HOLD, HOLD, HOLD,
\* BUY, HOLD, HOLD, SELL.
C15_CrossoverSignals ==
    (last.op = "addPriceData" /\ strategy.kind = "SMA")
    => /\ last.res.signal.action = "BUY" <=> FastBelowThenAbove(strategy)
       /\ last.res.signal.action = "SELL" <=> FastAboveThenBelow(strategy)
       /\ last.res.signal.action = "HOLD"
              <=> (~FastBelowThenAbove(strategy) /\ ~FastAboveThenBelow(strategy))
       /\ (/\ strategy.fastPeriod = 2
           /\ strategy.slowPeriod = 3
           /\ strategy.priceHistory
                  = SubSeq(ScenarioPrices, 1, Len(strategy.priceHistory)))
          => [k \in 1..Len(last.res.signals) |-> last.res.signals[k].action]
                 = SubSeq(ScenarioActions, 1, Len(strategy.priceHistory))

\* The SMA crossover with the periods 2 and 3 has been fed the seven prices.
C15_Witness ==
    /\ strategy.kind = "SMA"
    /\ strategy.fastPeriod = 2
    /\ strategy.slowPeriod = 3
    /\ strategy.priceHistory = ScenarioPrices
    /\ last.op = "addPriceData"
    /\ last.res.signal.action = "SELL"

\* The rises (the falls, taken positive) of the n changes of a history that
\* end with its price number e.
RisesEnding(history, n, e) ==
    [m \in 1..n |->
        IF Gt(history[e - n + m], history[e - n + m - 1])
        THEN Sub(history[e - n + m], history[e - n + m - 1]) ELSE Zero]

FallsEnding(history, n, e) ==
    [m \in 1..n |->
        IF Lt(history[e - n + m], history[e - n + m - 1])
        THEN Sub(history[e - n + m - 1], history[e - n + m]) ELSE Zero]

\* The RSI of tick e is strictly inside the neutral band: it is 100 when
\* nothing fell, otherwise 100 times the share of the rises in the changes.
NeutralAt(s, e) ==
    /\ e >= s.period + 1
    /\ Total(FallsEnding(s.priceHistory, s.period, e)) # Zero
    /\ Gt(Div(Mul(Num(100), Total(RisesEnding(s.priceHistory, s.period, e))),
              Add(Total(RisesEnding(s.priceHistory, s.period, e)),
                  Total(FallsEnding(s.priceHistory, s.period, e)))),
          s.oversoldLevel)
    /\ Lt(Div(Mul(Num(100), Total(RisesEnding(s.priceHistory, s.period, e))),
              Add(Total(RisesEnding(s.priceHistory, s.period, e)),
                  Total(FallsEnding(s.priceHistory, s.period, e)))),
          s.overboughtLevel)

\* Ticks i < j of the signals so far emit the action given, and no tick
\* between them emits the other one.
EmittedTwice(i, j, action, other) ==
    /\ i < j
    /\ SignalsSoFar[i].action = action
    /\ SignalsSoFar[j].action = action
    /\ \A k \in (i + 1)..(j - 1) : SignalsSoFar[k].action # other

\* C16: for every series of prices fed to addPriceData of the RSI strategy
\* (oversoldLevel < overboughtLevel), between two BUY emissions with no
\* SELL emitted between them there is a tick on which the RSI lies strictly
\* inside the neutral band and lastSignal is reset to HOLD; the same holds
\* for two SELL emissions with no BUY between them.
C16_NeutralTickBetweenEqualSignals ==
    strategy.kind = "RSI"
    => \A i, j \in 1..Len(SignalsSoFar) :
           (EmittedTwice(i, j, "BUY", "SELL") \/ EmittedTwice(i, j, "SELL", "BUY"))
           => \E k \in (i + 1)..(j - 1) :
                  /\ NeutralAt(strategy, k)
                  /\ SignalsSoFar[k].lastSignal = "HOLD"

\* The RSI strategy has emitted BUY twice with no SELL between.
C16_Witness ==
    /\ strategy.kind = "RSI"
    /\ Lt(strategy.oversoldLevel, strategy.overboughtLevel)
    /\ \E i, j \in 1..Len(SignalsSoFar) : EmittedTwice(i, j, "BUY", "SELL")

---------------------------------------------------------------------------
(* The ledger again: trades that meet a position of their symbol.          *)

\* The size of a quantity, whatever its sign.
Magnitude(x) == IF Lt(x, Zero) THEN Neg(x) ELSE x

\* The position the ledger holds for a symbol is on the side given, with a
\* quantity that is not 0.
Holds(symbol, side) ==
    /\ IndexOf(positions, symbol) # 0
    /\ positions[IndexOf(positions, symbol)].side = side
    /\ ~StrictEq(positions[IndexOf(positions, symbol)].quantity, Zero)

\* The trade is in the direction of the position its symbol has.
SameDirection(trade) ==
    \/ trade.side = "BUY" /\ Holds(trade.symbol, "LONG")
    \/ trade.side = "SELL" /\ Holds(trade.symbol, "SHORT")

\* The trade is against the position its symbol has and smaller than it.
OppositeAndSmaller(trade) ==
    /\ \/ trade.side = "SELL" /\ Holds(trade.symbol, "LONG")
       \/ trade.side = "BUY" /\ Holds(trade.symbol, "SHORT")
    /\ Lt(trade.quantity,
          Magnitude(positions[IndexOf(positions, trade.symbol)].quantity))

\* The position of the symbol before (old) and after (new) a trade: the
\* average price is the weighted one.
WeightedAverage(old, new, trade) ==
    Mul(new.avgPrice, Magnitude(new.quantity))
        = Add(Mul(old.avgPrice, Magnitude(old.quantity)),
              Mul(trade.price, trade.quantity))

\* C21: for every addTrade in the direction of the existing position, a
\* SELL added to a SHORT as well as a BUY added to a LONG, the position's
\* avgPrice becomes (avgPrice * |oldQty| + price * addedQty) / |newQty|.
C21_SameDirectionWeightedAverage ==
    [][(last'.op = "addTrade" /\ SameDirection(last'.arg))
       => /\ IndexOf(positions', last'.arg.symbol) # 0
          /\ WeightedAverage(positions[IndexOf(positions, last'.arg.symbol)],
                             positions'[IndexOf(positions', last'.arg.symbol)],
                             last'.arg)]_vars

\* C22: an addTrade against the existing position and smaller than it (a
\* SELL against a LONG, a BUY against a SHORT) reduces the position's
\* absolute quantity by the trade quantity and leaves its avgPrice and its
\* side unchanged.
C22_OppositeSmallerReduces ==
    [][(last'.op = "addTrade" /\ OppositeAndSmaller(last'.arg))
       => /\ IndexOf(positions', last'.arg.symbol) # 0
          /\ Magnitude(positions'[IndexOf(positions', last'.arg.symbol)].quantity)
                 = Sub(Magnitude(positions[IndexOf(positions, last'.arg.symbol)].quantity),
                       last'.arg.quantity)
          /\ positions'[IndexOf(positions', last'.arg.symbol)].avgPrice
                 = positions[IndexOf(positions, last'.arg.symbol)].avgPrice
          /\ positions'[IndexOf(positions', last'.arg.symbol)].side
                 = positions[IndexOf(positions, last'.arg.symbol)].side]_vars

---------------------------------------------------------------------------
(* The strategies with a full price history: each strategy has been fed a  *)
(* series of prices that leaves Headroom free places in its history, and   *)
(* is then fed up to MaxOverflow prices more than the history holds.       *)

Headroom == 1

MaxOverflow == 2

\* The price number k of the series the strategies have been fed.
WarmUpPrice(k) == Num(1 + (k % 4))

\* A strategy and the signals so far after one more call of addPriceData.
fedOne(state, after, price) ==
    [strategy |-> after.strategy,
     signals  |-> Append(state.signals, signalEntry(price, after))]

\* A strategy and the signals so far after the next price of the series.
fedNext(state) ==
    fedOne(state,
           IF state.strategy.kind = "SMA"
           THEN smaAddPriceData(state.strategy, WarmUpPrice(Len(state.signals) + 1))
           ELSE rsiAddPriceData(state.strategy, WarmUpPrice(Len(state.signals) + 1)),
           WarmUpPrice(Len(state.signals) + 1))

\* A strategy and the signals so far after the next n prices of the series,
\* half of them at a time; the test of the signals has the state computed
\* before more prices are fed to it.
RECURSIVE fedSeries(_, _)
fedSeries(state, n) ==
    IF Len(state.signals) < 0 \/ n <= 0 THEN state
    ELSE IF n = 1 THEN fedNext(state)
    ELSE fedSeries(fedSeries(state, n \div 2), n - (n \div 2))

\* The strategies after the series that leaves Headroom places free.
FedStrategies ==
    {fedSeries([strategy |-> s, signals |-> <<>>], s.maxHistorySize - Headroom) :
        s \in Strategies}

InitHistory ==
    \E fed \in FedStrategies :
        /\ positions = <<>>
        /\ trades = <<>>
        /\ initialBalance = Num(DefaultBalance)
        /\ availableBalance = Num(DefaultBalance)
        /\ limits = DefaultLimits
        /\ dailyPnL = resetDailyTracking(Zero, 0, 1).dailyPnL
        /\ dailyResetTime = resetDailyTracking(Zero, 0, 1).dailyResetTime
        /\ now = 1
        /\ executor = TradeExecutor(TRUE)
        /\ bot = TradingBot
        /\ strategy = fed.strategy
        /\ last = [op  |-> "addPriceData",
                   arg |-> fed.signals[Len(fed.signals)].price,
                   res |-> [signal  |-> TradingSignal(fed.signals[Len(fed.signals)].action,
                                                     fed.signals[Len(fed.signals)].confidence),
                            signals |-> fed.signals]]

AddPriceDataFull ==
    \E price \in SamplePrices :
        /\ Len(SignalsSoFar) < strategy.maxHistorySize + MaxOverflow
        /\ addPriceData(price)
        /\ UNCHANGED bot

NextHistory == AddPriceDataFull

SpecHistory == InitHistory /\ [][NextHistory]_vars

\* The prices addPriceData has been called with, in the order of the calls.
Arrived == [k \in 1..Len(SignalsSoFar) |-> SignalsSoFar[k].price]

\* The last n values of a sequence that has at least n.
MostRecent(values, n) == SubSeq(values, Len(values) - n + 1, Len(values))

\* The capacity the history of a strategy is documented with.
StatedCapacity(s) == IF s.kind = "SMA" THEN 200 ELSE 100

\* C23: after any sequence of addPriceData calls the price history is never
\* longer than the capacity (200 for the SMA crossover, 100 for the RSI
\* strategy) and equals the most recent min(n, capacity) samples in the
\* order of arrival, the oldest being discarded first.
C23_HistoryIsMostRecentSamples ==
    /\ Len(strategy.priceHistory) <= StatedCapacity(strategy)
    /\ strategy.priceHistory =
           MostRecent(Arrived,
                      IF Len(Arrived) < StatedCapacity(strategy) THEN Len(Arrived)
                      ELSE StatedCapacity(strategy))

\* A strategy has been fed two samples more than its history holds, the
\* last of them not the one the history has discarded.
C23_Witness ==
    /\ Len(Arrived) = StatedCapacity(strategy) + 2
    /\ Len(strategy.priceHistory) = StatedCapacity(strategy)
    /\ Arrived[1] # Arrived[Len(Arrived)]

---------------------------------------------------------------------------
(* The exponential moving average (src/src/indicators/index.ts).           *)

\* The value of an array element that was never set: prices[0] of an empty
\* array.
Undefined == [undefined |-> TRUE]

\* The ema array of calculateEMA after its loop has run up to index i - 1
\* (arrays are numbered from 1 here).
RECURSIVE emaUpTo(_, _, _)
emaUpTo(prices, multiplier, i) ==
    IF i = 1 THEN <<IF prices = <<>> THEN Undefined ELSE prices[1]>>
    ELSE Append(emaUpTo(prices, multiplier, i - 1),
                Add(Mul(Sub(prices[i], emaUpTo(prices, multiplier, i - 1)[i - 1]),
                        multiplier),
                    emaUpTo(prices, multiplier, i - 1)[i - 1]))

\* TechnicalIndicators.calculateEMA
calculateEMA(prices, period) ==
    emaUpTo(prices, Div(Num(2), Add(Num(period), Num(1))),
            IF Len(prices) < 1 THEN 1 ELSE Len(prices))

MaxPrices == 3

MaxPeriod == 3

\* The arrays of up to MaxPrices prices.
PriceArrays ==
    UNION {[1..n -> SamplePrices] : n \in 0..MaxPrices}

InitEMA ==
    ConstructedBot(Num(DefaultBalance), DefaultLimits, 1, SMACrossoverStrategy(12, 26), TRUE)

CalculateEMA ==
    \E prices \in PriceArrays, period \in 1..MaxPeriod :
        /\ last' = [op  |-> "calculateEMA",
                    arg |-> [prices |-> prices, period |-> period],
                    res |-> calculateEMA(prices, period)]
        /\ UNCHANGED <<strategy, executor, positions, trades, initialBalance,
                       availableBalance, limits, dailyPnL, dailyResetTime, now>>
        /\ UNCHANGED bot

NextEMA == CalculateEMA

SpecEMA == InitEMA /\ [][NextEMA]_vars

\* C25: for every input, the empty sequence and every period >= 1
\* included, calculateEMA returns a sequence as long as its input.
C25_EMAAsLongAsInput ==
    last.op = "calculateEMA" => Len(last.res) = Len(last.arg.prices)

---------------------------------------------------------------------------
(* The RSI strategy against the rule without its lastSignal.               *)

\* The RSI of tick e, for a strategy that has all the prices it was fed:
\* 100 when nothing fell in the last period changes, otherwise 100 times
\* the share of the rises in the changes.
RsiAt(s, e) ==
    IF Total(FallsEnding(s.priceHistory, s.period, e)) = Zero THEN Num(100)
    ELSE Div(Mul(Num(100), Total(RisesEnding(s.priceHistory, s.period, e))),
             Add(Total(RisesEnding(s.priceHistory, s.period, e)),
                 Total(FallsEnding(s.priceHistory, s.period, e))))

\* Tick e has a current and a previous RSI, the current one at or below the
\* oversold level and the previous one above it.
CrossedDown(s, e) ==
    /\ e >= s.period + 2
    /\ Le(RsiAt(s, e), s.oversoldLevel)
    /\ Gt(RsiAt(s, e - 1), s.oversoldLevel)

\* The same for the overbought level, from below.
CrossedUp(s, e) ==
    /\ e >= s.period + 2
    /\ Ge(RsiAt(s, e), s.overboughtLevel)
    /\ Lt(RsiAt(s, e - 1), s.overboughtLevel)

\* The lastSignal tick e finds.
LastSignalBefore(e) == IF e = 1 THEN "HOLD" ELSE SignalsSoFar[e - 1].lastSignal

\* The RSI strategy over every series of up to MaxSamples prices, with the
\* levels 25 and 75: the RSI of these prices takes values below, at, between
\* and above them.
InitLatch ==
    ConstructedBot(Num(DefaultBalance), DefaultLimits, 1,
                   RSIStrategy(2, Num(25), Num(75)), TRUE)

NextLatch == AddPriceData

SpecLatch == InitLatch /\ [][NextLatch]_vars

\* C26: the lastSignal of the RSI strategy never suppresses a signal: for
\* every series of prices (oversoldLevel < overboughtLevel) the strategy
\* returns BUY if and only if the current RSI is at or below the oversold
\* level and the previous one above it, SELL if and only if the current RSI
\* is at or above the overbought level and the previous one below it, and
\* no crossing happens while lastSignal already is that action.  (Stated of
\* the last call: every call is the last one in some state.)
C26_LastSignalNeverSuppresses ==
    (last.op = "addPriceData" /\ strategy.kind = "RSI")
    => /\ last.res.signal.action = "BUY"
              <=> CrossedDown(strategy, Len(SignalsSoFar))
       /\ last.res.signal.action = "SELL"
              <=> CrossedUp(strategy, Len(SignalsSoFar))
       /\ CrossedDown(strategy, Len(SignalsSoFar))
              => LastSignalBefore(Len(SignalsSoFar)) # "BUY"
       /\ CrossedUp(strategy, Len(SignalsSoFar))
              => LastSignalBefore(Len(SignalsSoFar)) # "SELL"

\* The RSI has come down to the oversold level for the second time, this
\* time to the level itself, and a BUY has been returned both times.
C26_Witness ==
    /\ strategy.kind = "RSI"
    /\ strategy.oversoldLevel = Num(25)
    /\ last.op = "addPriceData"
    /\ last.res.signal.action = "BUY"
    /\ RsiAt(strategy, Len(SignalsSoFar)) = Num(25)
    /\ CrossedDown(strategy, Len(SignalsSoFar))
    /\ \E e \in 1..(Len(SignalsSoFar) - 1) :
           CrossedDown(strategy, e) /\ SignalsSoFar[e].action = "BUY"

---------------------------------------------------------------------------
(* The executor and the risk manager together.                             *)

\* C30: an assessment that allows a trade carries no recommendedSize, and
\* executeSignal does not retry a rejected trade at the recommended size: a
\* signal whose candidate size fails the position-size gate produces no
\* trade, and every trade recorded through executeSignal has the candidate
\* size as its quantity.
C30_NoTradeAtRecommendedSize ==
    [][last'.op = "executeSignal" =>
          /\ \A k \in CallsTo(last'.res, "assessTradeRisk") :
                 /\ last'.res.calls[k].returned.allowed
                        => last'.res.calls[k].returned.recommendedSize = <<>>
                 /\ last'.res.calls[k].returned.reason = "Position size too large"
                        => /\ CallsTo(last'.res, "assessTradeRisk") = {k}
                           /\ CallsTo(last'.res, "placeOrder") = {}
                           /\ CallsTo(last'.res, "addTrade") = {}
                           /\ trades' = trades
                           /\ positions' = positions
          /\ trades' # trades
                 => /\ Len(trades') = Len(trades) + 1
                    /\ trades'[Len(trades')].quantity
                           = CandidateSize(last'.arg.signal, last'.arg.currentPrice)]_vars

\* A dry-run signal whose candidate size the position-size gate rejected,
\* with a recommended size smaller than the candidate: nothing was traded.
C30_Witness ==
    /\ last.op = "executeSignal"
    /\ executor.isDryRun
    /\ ~last.res.result.success
    /\ last.res.applied = <<>>
    /\ \E k \in CallsTo(last.res, "assessTradeRisk") :
           /\ last.res.calls[k].returned.reason = "Position size too large"
           /\ last.res.calls[k].returned.recommendedSize # <<>>
           /\ Lt(last.res.calls[k].returned.recommendedSize[1],
                 last.res.calls[k].quantity)

---------------------------------------------------------------------------
(* The executor on its own ledger: from an empty ledger, any sequence of   *)
(* executeSignal and checkStopLossOrders calls, with the prices of the     *)
(* positions moving in between, for one and for two open positions         *)
(* allowed.                                                                *)

MaxOpenPositions == 2

GuardPrices == {Num(80), Num(110)}

InitGuard ==
    \E dryRun \in BOOLEAN, maxOpenPositions \in 1..MaxOpenPositions :
        ConstructedBot(Num(DefaultBalance),
                       [DefaultLimits EXCEPT !.maxOpenPositions = maxOpenPositions],
                       1, SMACrossoverStrategy(12, 26), dryRun)

GuardPrice ==
    \E symbol \in Symbols, price \in GuardPrices :
        /\ executor.pc = "idle"
        /\ IndexOf(positions, symbol) # 0
        /\ positions[IndexOf(positions, symbol)].currentPrice = Num(100)
        /\ updatePrice(symbol, price)
        /\ UNCHANGED bot

GuardSignal == executor.pc = "idle" /\ ExecuteSignal

NextGuard ==
    \/ GuardPrice
    \/ GuardSignal
    \/ CheckStopLossOrders
    \/ SweepStopLoss
    \/ SweepTakeProfit

SpecGuard == InitGuard /\ [][NextGuard]_vars

\* The assessments assessTradeRisk has returned in a step: those of a call
\* of executeSignal, or those of the closing signal of a check of the sweep.
Assessed(before, after) ==
    IF after.op = "executeSignal"
    THEN {after.res.calls[k].returned : k \in CallsTo(after.res, "assessTradeRisk")}
    ELSE IF /\ after.op = "checkStopLossOrders"
            /\ before.op = "checkStopLossOrders"
            /\ Len(after.res.calls) = Len(before.res.calls) + 1
    THEN {after.res.calls[Len(after.res.calls)].outcome.calls[k].returned :
             k \in CallsTo(after.res.calls[Len(after.res.calls)].outcome,
                           "assessTradeRisk")}
    ELSE {}

\* The symbols, sides and quantities of the positions.
Holdings(ps) ==
    [i \in 1..Len(ps) |->
        [symbol |-> ps[i].symbol, side |-> ps[i].side, quantity |-> ps[i].quantity]]

\* C27: once the number of open positions equals maxOpenPositions, every
\* later call of assessTradeRisk is rejected, whatever its side and symbol:
\* through the executor, signals and stop-loss and take-profit sweeps
\* alike, no position is reduced or closed again, and the number of open
\* positions never decreases.
C27_FullLedgerIsFrozen ==
    [][Len(positions) = limits.maxOpenPositions
       => /\ \A assessment \in Assessed(last, last') : ~assessment.allowed
          /\ trades' = trades
          /\ Holdings(positions') = Holdings(positions)
          /\ Len(positions') = limits'.maxOpenPositions]_vars

\* The sweep has found the only position allowed at its stop-loss, and its
\* closing signal has been rejected for the number of open positions: the
\* position is still there.
C27_Witness ==
    /\ last.op = "checkStopLossOrders"
    /\ Len(positions) = limits.maxOpenPositions
    /\ \E k \in 1..Len(last.res.calls) :
           /\ last.res.calls[k].strategy = "STOP_LOSS"
           /\ last.res.calls[k].outcome.result = Failure("Maximum open positions reached")
           /\ IndexOf(positions, last.res.calls[k].symbol) # 0

\* C28: from an empty ledger and with maxOpenPositions >= 1, after any
\* sequence of executeSignal and checkStopLossOrders calls the number of
\* open positions is at most maxOpenPositions.
C28_OpenPositionsWithinLimit ==
    Len(positions) <= limits.maxOpenPositions

\* With one position allowed and one open, a signal for the other symbol
\* has been rejected for the number of open positions.
C28_Witness ==
    /\ last.op = "executeSignal"
    /\ limits.maxOpenPositions = 1
    /\ Len(positions) = 1
    /\ positions[1].symbol # last.arg.symbol
    /\ last.res.result = Failure("Maximum open positions reached")

---------------------------------------------------------------------------
(* TradingBot.start and TradingBot.stop: the loop that polls the market,   *)
(* feeds the strategy, executes its signals and sweeps the positions.      *)
(* start() runs from one await to the next without interruption; stop()    *)
(* can run only while start() is suspended at an await.  The strategy is   *)
(* the SMA crossover with EMA_FAST=2 and EMA_SLOW=3.                        *)

\* The longest run of the loop: getMarketData calls issued.
MaxPolls == 11

\* The clock at which the last sleep may end.
MaxBotNow == 3

\* process.env.TRADING_PAIR || 'BTCUSDT' and process.env.STRATEGY || 'SMA'
TradingPair == "BTCUSDT"
StrategyName == "SMA"

\* The prices the exchange reports, poll after poll: a fall, a jump that
\* makes the fast average cross above the slow one, a steady rise and a
\* last price more than 6% above the jump; and the mirror image, a rise, a
\* drop that makes the fast average cross below, a steady fall and a last
\* price well below the drop.
Feeds ==
    {<<100, 90, 80, 120, 121, 122, 123, 124, 125, 126, 130>>,
     <<80, 90, 100, 70, 69, 68, 67, 66, 65, 64, 60>>}

\* The price of poll k; the last price of a feed repeats.
priceAt(feed, k) == Num(feed[IF k <= Len(feed) THEN k ELSE Len(feed)])

\* The configurations of the risk limits: the defaults, and MAX_DAILY_LOSS=0.
BotLimits == {DefaultLimits, [DefaultLimits EXCEPT !.maxDailyLoss = Zero]}

\* A bug the loop could have: while (true).
loopTestAlways(b) == [b EXCEPT !.pc = "getMarketData", !.polls = @ + 1, !.steps = <<>>]

\* while (this.isRunning) { const marketData = await getMarketData(...) ...
\* the test of the loop: the call of getMarketData that begins the next
\* iteration, or the end of start().
loopTest(b) ==
    IF b.isRunning
    THEN [b EXCEPT !.pc = "getMarketData", !.polls = @ + 1, !.steps = <<>>]
    ELSE [b EXCEPT !.pc = "returned"]

\* stop(): this.isRunning = false; this.exchange.disconnect()
stop(b) == [b EXCEPT !.isRunning = FALSE]

\* catch (error) { logger.error(...); this.stop(); } and the end of start().
caught(b) == [stop(b) EXCEPT !.pc = "returned", !.thrown = TRUE]

\* iterationCount++; await this.sleep(30000)
asleep(b) ==
    [b EXCEPT !.iterationCount = @ + 1, !.pc = "sleep", !.steps = Append(@, "sleep")]

\* if (iterationCount % 10 === 0) { await this.executor.checkStopLossOrders() ...
afterTrade(b) ==
    IF b.iterationCount % 10 = 0 THEN [b EXCEPT !.pc = "checkStopLossOrders"]
    ELSE asleep(b)

\* if (signal.action !== 'HOLD') { ... await this.executor.executeSignal(...)
afterSignal(b) ==
    IF b.signal.action # "HOLD" THEN [b EXCEPT !.pc = "executeSignal"]
    ELSE afterTrade(b)

\* The bot record b with the call `step` made by the current iteration.
stepped(b, step) == [b EXCEPT !.steps = Append(@, step)]

\* A step that changes the bot alone.
botOnly(b) ==
    /\ bot' = b
    /\ UNCHANGED <<positions, trades, initialBalance, availableBalance, limits,
                   dailyPnL, dailyResetTime, now, strategy, executor, last>>

InitBot ==
    \E dryRun \in BOOLEAN, lim \in BotLimits :
        ConstructedBot(Num(DefaultBalance), lim, 1, SMACrossoverStrategy(2, 3), dryRun)

\* start() up to its first await: this.isRunning = true; await connect().
Start ==
    \E feed \in Feeds :
        /\ bot.pc = "new"
        /\ botOnly([bot EXCEPT !.isRunning = TRUE, !.pc = "connect", !.feed = feed])

\* connect() resolves, and start() runs on to the first test of the loop;
\* or connect() rejects.
Connected ==
    \E resolves \in BOOLEAN :
        /\ bot.pc = "connect"
        /\ botOnly(IF resolves THEN loopTest([bot EXCEPT !.iterationCount = 0])
                   ELSE caught(bot))

\* getMarketData resolves with the price of this poll, or rejects.
GetMarketData ==
    \E resolves \in BOOLEAN :
        /\ bot.pc = "getMarketData"
        /\ botOnly(IF resolves
                   THEN [bot EXCEPT !.pc = "updatePrice",
                                    !.marketData = <<priceAt(bot.feed, bot.polls)>>]
                   ELSE caught(bot))

\* this.portfolio.updatePrice(tradingPair, marketData.price)
BotUpdatePrice ==
    /\ bot.pc = "updatePrice"
    /\ updatePrice(TradingPair, bot.marketData[1])
    /\ bot' = stepped([bot EXCEPT !.pc = "addPriceData"], "updatePrice")

\* const signal = this.strategy.addPriceData(marketData), and what follows
\* up to the next await.
BotAddPriceData ==
    /\ bot.pc = "addPriceData"
    /\ addPriceData(bot.marketData[1])
    /\ bot' = afterSignal(stepped([bot EXCEPT !.signal = last'.res.signal],
                                  "addPriceData"))

\* await this.executor.executeSignal(signal, tradingPair, marketData.price,
\* strategyName), and what follows up to the next await.
BotExecuteSignal ==
    \E answer \in Answers :
        /\ bot.pc = "executeSignal"
        /\ Representable(availableBalance)
        /\ executeSignal(bot.signal, TradingPair, bot.marketData[1], StrategyName,
                         answer.order, answer.logFails)
        /\ bot' = IF last'.res.result.thrown
                  THEN caught(stepped(bot, "executeSignal"))
                  ELSE afterTrade(stepped(bot, "executeSignal"))

\* await this.executor.checkStopLossOrders(): the call, up to its loop.
BotCheckStopLossOrders ==
    /\ bot.pc = "checkStopLossOrders"
    /\ checkStopLossOrders
    /\ bot' = stepped([bot EXCEPT !.pc = "sweeping"], "checkStopLossOrders")

\* The checks of the sweep, position by position.
BotSweepStopLoss == bot.pc = "sweeping" /\ SweepStopLoss

BotSweepTakeProfit == bot.pc = "sweeping" /\ SweepTakeProfit

\* checkStopLossOrders is over: the summaries are logged and the loop goes
\* to sleep, or the exception of the sweep is caught.
Swept ==
    /\ bot.pc = "sweeping"
    /\ executor.pc = "idle"
    /\ botOnly(IF last.res.thrown THEN caught(bot) ELSE asleep(bot))

\* The sleep ends, the clock having moved on or not, and the loop is tested.
Woke ==
    \E passed \in {0, 1} :
        /\ bot.pc = "sleep"
        /\ now + passed <= MaxBotNow
        /\ loopTest(bot).polls <= MaxPolls
        /\ bot' = loopTest(bot)
        /\ now' = now + passed
        /\ UNCHANGED <<positions, trades, initialBalance, availableBalance, limits,
                       dailyPnL, dailyResetTime, strategy, executor, last>>

\* The calls start() can be suspended at.
AwaitPoints == {"connect", "getMarketData", "executeSignal", "sweeping", "sleep"}

\* stop() is called from outside while start() is suspended.
Stop ==
    /\ bot.pc \in AwaitPoints
    /\ bot.stopAt = <<>>
    /\ botOnly([stop(bot) EXCEPT
                   !.stopAt = <<[polls |-> bot.polls, steps |-> bot.steps, pc |-> bot.pc]>>])

NextBot ==
    \/ Start
    \/ Connected
    \/ GetMarketData
    \/ BotUpdatePrice
    \/ BotAddPriceData
    \/ BotExecuteSignal
    \/ BotCheckStopLossOrders
    \/ BotSweepStopLoss
    \/ BotSweepTakeProfit
    \/ Swept
    \/ Woke
    \/ Stop

SpecBot == InitBot /\ [][NextBot]_vars

\* The calls an iteration makes when it runs to its end, for the signal it
\* got and the iterationCount it left behind.
CompleteIteration(b) ==
    <<"updatePrice", "addPriceData">>
    \o (IF b.signal.action # "HOLD" THEN <<"executeSignal">> ELSE <<>>)
    \o (IF (b.iterationCount - 1) % 10 = 0 THEN <<"checkStopLossOrders">> ELSE <<>>)
    \o <<"sleep">>

\* No iteration has begun, or the last one begun has made all its calls.
IterationOver(b) == b.polls = 0 \/ b.steps = CompleteIteration(b)

\* C24: once stop() has been called no new iteration begins: getMarketData
\* is issued only while isRunning is true, stop() has not been called and the
\* iteration before it has made all its calls; stop() itself changes nothing
\* of the iteration in flight, neither the ledger, the strategy, the executor
\* nor the place start() stands at; and unless an exception is caught,
\* start() returns only after the iteration in flight has made all its calls.
C24_StopEndsLoopBetweenIterations ==
    [][/\ (bot'.polls # bot.polls)
             => /\ bot.isRunning
                /\ bot.stopAt = <<>>
                /\ ~bot.thrown
                /\ IterationOver(bot)
       /\ (bot'.stopAt # bot.stopAt)
             => /\ bot'.pc = bot.pc
                /\ bot'.steps = bot.steps
                /\ UNCHANGED <<positions, trades, availableBalance, strategy,
                               executor, dailyPnL>>
       /\ (bot'.pc = "returned" /\ bot.pc # "returned" /\ ~bot'.thrown)
             => /\ bot.stopAt # <<>>
                /\ IterationOver(bot)]_vars

\* stop() was called while a getMarketData was awaited; the iteration went
\* on to trade on that price and to sleep, and start() returned without
\* another poll.
C24_Witness ==
    /\ bot.pc = "returned"
    /\ ~bot.thrown
    /\ bot.stopAt # <<>>
    /\ bot.stopAt[1].pc = "getMarketData"
    /\ bot.stopAt[1].polls = bot.polls
    /\ bot.steps = <<"updatePrice", "addPriceData", "executeSignal", "sleep">>
    /\ trades # <<>>
    /\ trades[Len(trades)].price = bot.marketData[1]

\* The assessment the last executeSignal call has asked for, if any: the
\* call the loop made, or the last call of the sweep.
LastOutcome ==
    IF last.op = "executeSignal" THEN <<last.res>>
    ELSE IF last.op = "checkStopLossOrders" /\ last.res.calls # <<>>
    THEN <<last.res.calls[Len(last.res.calls)].outcome>>
    ELSE <<>>

RejectedForDailyLoss ==
    /\ LastOutcome # <<>>
    /\ LastOutcome[1].calls # <<>>
    /\ LastOutcome[1].calls[1].op = "assessTradeRisk"
    /\ ~LastOutcome[1].calls[1].returned.allowed
    /\ LastOutcome[1].calls[1].returned.reason = DailyLoss

\* C29: in the bot as composed the risk manager's running daily P&L is 0 in
\* every state, whatever the loop has traded, filled or swept; and the
\* daily-loss gate has rejected the last trade only when totalValue *
\* maxDailyLoss <= 0 (a rejected trade leaves the ledger as it was).
C29_DailyPnLStaysZero ==
    /\ dailyPnL = Zero
    /\ RejectedForDailyLoss => Le(Mul(getTotalValue, limits.maxDailyLoss), Zero)

\* The loop has traded and the sweep has closed the position at another
\* price: a loss or a gain was realized, and the daily P&L is still 0.
C29_Witness ==
    /\ dailyPnL = Zero
    /\ Len(trades) >= 2
    /\ trades[Len(trades)].price # trades[1].price
    /\ last.op = "checkStopLossOrders"
    /\ last.res.calls # <<>>
    /\ last.res.calls[Len(last.res.calls)].outcome.applied # <<>>

\* With MAX_DAILY_LOSS=0 the gate rejects the trade of the first signal.
C29_GateWitness ==
    /\ RejectedForDailyLoss
    /\ limits.maxDailyLoss = Zero
    /\ last.op = "executeSignal"
    /\ trades = <<>>
    /\ bot.steps = <<"updatePrice", "addPriceData", "executeSignal", "sleep">>

---------------------------------------------------------------------------
(* The ledger once more: the trade history against the positions.          *)

\* The BUY quantities less the SELL quantities of the symbol's trades in ts.
RECURSIVE NetQuantity(_, _)
NetQuantity(ts, symbol) ==
    IF ts = <<>> THEN Zero
    ELSE LET trade == ts[Len(ts)]
             before == NetQuantity(SubSeq(ts, 1, Len(ts) - 1), symbol)
         IN  IF trade.symbol # symbol THEN before
             ELSE IF trade.side = "BUY" THEN Add(before, trade.quantity)
             ELSE Sub(before, trade.quantity)

\* The quantity the ledger holds of a symbol: 0 when it has no position.
HeldQuantity(symbol) ==
    IF IndexOf(positions, symbol) = 0 THEN Zero
    ELSE positions[IndexOf(positions, symbol)].quantity

\* C32: after any sequence of addTrade calls, for every symbol the BUY
\* quantities less the SELL quantities of the trade history equal the
\* quantity of the symbol's position, or 0 when the symbol has no position.
C32_NetQuantityIsPositionQuantity ==
    \A symbol \in Symbols : StrictEq(HeldQuantity(symbol), NetQuantity(trades, symbol))

\* Three trades of one symbol: a SELL has opened a SHORT, a BUY has turned
\* it LONG, a last SELL has brought it back to SHORT; the history nets to
\* the quantity held, which is negative.
C32_Witness ==
    \E symbol \in Symbols :
        /\ Len(TradesOf(symbol)) = 3
        /\ TradesOf(symbol)[1].side = "SELL"
        /\ TradesOf(symbol)[2].side = "BUY"
        /\ TradesOf(symbol)[3].side = "SELL"
        /\ Lt(HeldQuantity(symbol), Zero)
        /\ StrictEq(HeldQuantity(symbol), NetQuantity(trades, symbol))

\* A position closed by a SELL: the symbol has trades and no position.
C32_ClosedWitness ==
    \E symbol \in Symbols :
        /\ TradesOf(symbol) # <<>>
        /\ IndexOf(positions, symbol) = 0
        /\ StrictEq(NetQuantity(trades, symbol), Zero)

---------------------------------------------------------------------------
(* The executor's ledger once more: the available balance in dry-run.      *)

\* The least a BUY of the executor leaves of the balance: all but 10% and
\* the fee of 0.1% of that amount.
LeastLeft(balance) == Mul(balance, Sub(Num(1), Add(Frac(1, 10), Frac(1, 10000))))

\* C31: in dry-run mode, from a positive initial balance, with prices > 0
\* and confidences in [0, 1], availableBalance is strictly positive after
\* any sequence of executeSignal and checkStopLossOrders calls: a step that
\* records a BUY leaves at least the balance less 10% of it and a fee of
\* 0.1% of that amount, and a step that records a SELL does not lower it.
C31_DryRunBalanceStaysPositive ==
    /\ [](executor.isDryRun => Gt(availableBalance, Zero))
    /\ [][(executor.isDryRun /\ trades' # trades)
          => /\ Len(trades') = Len(trades) + 1
             /\ trades'[Len(trades')].side = "BUY"
                    => /\ Lt(availableBalance', availableBalance)
                       /\ Ge(availableBalance', LeastLeft(availableBalance))
             /\ trades'[Len(trades')].side = "SELL"
                    => Ge(availableBalance', availableBalance)]_vars

\* Two dry-run BUY signals of confidence 1 in a row: each has spent 10% of
\* the balance and the fee, and 0.8999 * 0.8999 of the balance is left.
C31_Witness ==
    /\ executor.isDryRun
    /\ last.op = "executeSignal"
    /\ last.arg.signal.confidence = Num(1)
    /\ Len(trades) = 2
    /\ trades[1].side = "BUY"
    /\ trades[2].side = "BUY"
    /\ StrictEq(availableBalance, LeastLeft(LeastLeft(initialBalance)))

\* The sweep has closed a SHORT in dry-run with a BUY, and the balance left
\* is positive.
C31_SweepWitness ==
    /\ executor.isDryRun
    /\ last.op = "checkStopLossOrders"
    /\ last.res.calls # <<>>
    /\ last.res.calls[Len(last.res.calls)].outcome.applied # <<>>
    /\ last.res.calls[Len(last.res.calls)].outcome.applied[1].side = "BUY"
    /\ Gt(availableBalance, Zero)

---------------------------------------------------------------------------
(* The risk assessment in the arithmetic of the program: a JavaScript      *)
(* number is an IEEE 754 double, and every operation rounds its exact      *)
(* result to the nearest double, ties to even.  The doubles here are the   *)
(* finite ones of the normal range, which the amounts of an assessment     *)
(* stay in.                                                                *)

\* Natural numbers of any size: the digits in base 2^15, least first, the
\* last digit not 0; <<>> is 0.
Base == 2^15

RECURSIVE BigOf(_)
BigOf(i) == IF i = 0 THEN <<>> ELSE <<i % Base>> \o BigOf(i \div Base)

RECURSIVE Trim(_)
Trim(a) ==
    IF a # <<>> /\ a[Len(a)] = 0 THEN Trim(SubSeq(a, 1, Len(a) - 1)) ELSE a

Digit(a, i) == IF i <= Len(a) THEN a[i] ELSE 0

Rest(a) == IF a = <<>> THEN a ELSE Tail(a)

RECURSIVE BigAddC(_, _, _)
BigAddC(a, b, c) ==
    IF a = <<>> /\ b = <<>> THEN (IF c = 0 THEN <<>> ELSE <<c>>)
    ELSE LET x == Digit(a, 1) + Digit(b, 1) + c
         IN  <<x % Base>> \o BigAddC(Rest(a), Rest(b), x \div Base)

BigAdd(a, b) == BigAddC(a, b, 0)

\* a - b - borrow, for a >= b + borrow.
RECURSIVE BigSubB(_, _, _)
BigSubB(a, b, borrow) ==
    IF a = <<>> THEN <<>>
    ELSE LET x == a[1] - Digit(b, 1) - borrow
         IN  <<IF x < 0 THEN x + Base ELSE x>>
                 \o BigSubB(Tail(a), Rest(b), IF x < 0 THEN 1 ELSE 0)

BigSub(a, b) == Trim(BigSubB(a, b, 0))

RECURSIVE BigLtFrom(_, _, _)
BigLtFrom(a, b, i) ==
    IF i = 0 THEN FALSE
    ELSE IF a[i] # b[i] THEN a[i] < b[i]
    ELSE BigLtFrom(a, b, i - 1)

BigLt(a, b) ==
    IF Len(a) # Len(b) THEN Len(a) < Len(b) ELSE BigLtFrom(a, b, Len(a))

\* a * k + c for a digit k and a carry c.
RECURSIVE BigMulD(_, _, _)
BigMulD(a, k, c) ==
    IF a = <<>> THEN (IF c = 0 THEN <<>> ELSE <<c>>)
    ELSE LET x == a[1] * k + c
         IN  <<x % Base>> \o BigMulD(Tail(a), k, x \div Base)

\* a * 2^15
BigShlDigit(a) == IF a = <<>> THEN a ELSE <<0>> \o a

RECURSIVE BigMul(_, _)
BigMul(a, b) ==
    IF a = <<>> \/ b = <<>> THEN <<>>
    ELSE Trim(BigAdd(BigMulD(a, b[1], 0), BigShlDigit(BigMul(a, Tail(b)))))

\* a * 2^k
RECURSIVE BigShl(_, _)
BigShl(a, k) ==
    IF a = <<>> THEN a
    ELSE IF k >= 15 THEN <<0>> \o BigShl(a, k - 15)
    ELSE BigMulD(a, 2^k, 0)

RECURSIVE SmallBitLen(_)
SmallBitLen(i) == IF i = 0 THEN 0 ELSE 1 + SmallBitLen(i \div 2)

BitLen(a) == IF a = <<>> THEN 0 ELSE 15 * (Len(a) - 1) + SmallBitLen(a[Len(a)])

\* Bit i of a, bit 0 the lowest.
Bit(a, i) == (Digit(a, (i \div 15) + 1) \div 2^(i % 15)) % 2

\* a \div 2^x for x < 15.
BigShr(a, x) ==
    Trim([i \in 1..Len(a) |-> (a[i] \div 2^x) + (Digit(a, i + 1) % 2^x) * 2^(15 - x)])

\* The largest digit k in lo..hi with b * k <= r.
RECURSIVE MaxDigit(_, _, _, _)
MaxDigit(b, r, lo, hi) ==
    IF lo = hi THEN lo
    ELSE LET mid == (lo + hi + 1) \div 2
         IN  IF BigLt(r, BigMulD(b, mid, 0))
             THEN MaxDigit(b, r, lo, mid - 1)
             ELSE MaxDigit(b, r, mid, hi)

\* An estimate of r \div b from the leading digits of r < b * 2^15 and of
\* b: for a b whose leading digit is 2^14 or more it is the quotient or up
\* to 2 above it.
BigDivGuess(b, r) ==
    IF Len(r) < Len(b) THEN 0
    ELSE IF (Digit(r, Len(b) + 1) * Base + r[Len(b)]) \div b[Len(b)] >= Base
    THEN Base - 1
    ELSE (Digit(r, Len(b) + 1) * Base + r[Len(b)]) \div b[Len(b)]

\* Long division of a by b > 0 whose leading digit is 2^14 or more: digit i
\* of a down to the first, q and r the quotient and the remainder of the
\* digits above.  BigDivDigit brings digit i down into the remainder r,
\* BigDivTry finds the quotient's digit from the estimate g, BigDivPut puts
\* the digit k.
RECURSIVE BigDivFrom(_, _, _, _, _)
RECURSIVE BigDivDigit(_, _, _, _, _)
RECURSIVE BigDivTry(_, _, _, _, _, _)
RECURSIVE BigDivPut(_, _, _, _, _, _)
BigDivFrom(a, b, i, q, r) ==
    IF i = 0 THEN [q |-> Trim(q), r |-> r]
    ELSE BigDivDigit(a, b, i, q, Trim(<<a[i]>> \o r))

BigDivDigit(a, b, i, q, r) == BigDivTry(a, b, i, q, r, BigDivGuess(b, r))

BigDivTry(a, b, i, q, r, g) ==
    BigDivPut(a, b, i, q, r, MaxDigit(b, r, IF g < 2 THEN 0 ELSE g - 2, g))

BigDivPut(a, b, i, q, r, k) ==
    BigDivFrom(a, b, i - 1, <<k>> \o q,
               IF k = 0 THEN r ELSE BigSub(r, BigMulD(b, k, 0)))

BigDivNormal(a, b) == BigDivFrom(a, b, Len(a), <<>>, <<>>)

\* The quotient q of a by b > 0, and in r the remainder times the power of
\* 2 that a and b are scaled by to make the leading digit of b 2^14 or more.
BigDivMod(a, b) ==
    BigDivNormal(BigShl(a, 15 * Len(b) - BitLen(b)), BigShl(b, 15 * Len(b) - BitLen(b)))

\* An IEEE 754 double in the normal range: sign * m * 2^e with
\* 2^52 <= m < 2^53, or 0 (sign 0, m 0).
FlZero == [sign |-> 0, m |-> <<>>, e |-> 0]

\* sign * m * 2^e for a significand m of 53 bits, or of 54 after a carry.
Normal(sign, m, e) ==
    IF BitLen(m) = 54
    THEN [sign |-> sign, m |-> BigShl(BigOf(1), 52), e |-> e + 1]
    ELSE [sign |-> sign, m |-> m, e |-> e]

\* The significand m and the x bits low below it, of which r tells whether
\* more follows: to the nearest, a tie to the even significand.
RoundLow(sign, m, low, x, r, e) ==
    Normal(sign,
           IF \/ low > 2^(x - 1)
              \/ low = 2^(x - 1) /\ (r # <<>> \/ m[1] % 2 = 1)
           THEN BigAdd(m, BigOf(1)) ELSE m,
           e)

\* The quotient q of 53 + x bits, x in 1..2, and the remainder r.
RoundBits(sign, q, r, x, e) ==
    RoundLow(sign, BigShr(q, x), q[1] % 2^x, x, r, e + x)

RoundQuotient(sign, dm, e) == RoundBits(sign, dm.q, dm.r, BitLen(dm.q) - 53, e)

\* n / d for n * 2^s or d * 2^-s in place of n or d, which makes the
\* quotient one of 54 or 55 bits.
RoundShifted(sign, n, d, s, e) ==
    RoundQuotient(sign,
                  BigDivMod(IF s >= 0 THEN BigShl(n, s) ELSE n,
                            IF s >= 0 THEN d ELSE BigShl(d, -s)),
                  e - s)

\* The double nearest to n/d * 2^e, ties to the even significand, for natural
\* numbers n and d > 0.
RoundToDouble(sign, n, d, e) ==
    IF n = <<>> THEN FlZero
    ELSE RoundShifted(sign, n, d, 54 - (BitLen(n) - BitLen(d)), e)

\* The double nearest to the quotient n/d of two integers.
FlOf(n, d) ==
    RoundToDouble(IF n * d > 0 THEN 1 ELSE IF n * d < 0 THEN -1 ELSE 0,
                  BigOf(IF n < 0 THEN -n ELSE n), BigOf(IF d < 0 THEN -d ELSE d), 0)

FlNeg(a) == [a EXCEPT !.sign = -a.sign]

\* a * b
FlMul(a, b) == RoundToDouble(a.sign * b.sign, BigMul(a.m, b.m), BigOf(1), a.e + b.e)

\* a / b, for b # 0
FlDiv(a, b) == RoundToDouble(a.sign * b.sign, a.m, b.m, a.e - b.e)

\* |a| < |b|
FlMagLt(a, b) ==
    IF a.m = <<>> \/ b.m = <<>> THEN a.m = <<>> /\ b.m # <<>>
    ELSE IF a.e # b.e THEN a.e < b.e ELSE BigLt(a.m, b.m)

\* sa * x * 2^e + sb * y * 2^e
FlAddAligned(sa, x, sb, y, e) ==
    IF sa = sb THEN RoundToDouble(sa, BigAdd(x, y), BigOf(1), e)
    ELSE IF BigLt(x, y) THEN RoundToDouble(sb, BigSub(y, x), BigOf(1), e)
    ELSE RoundToDouble(sa, BigSub(x, y), BigOf(1), e)

FlAddAt(a, b, e) ==
    FlAddAligned(a.sign, BigShl(a.m, a.e - e), b.sign, BigShl(b.m, b.e - e), e)

\* a + b
FlAdd(a, b) ==
    IF a.sign = 0 THEN b
    ELSE IF b.sign = 0 THEN a
    ELSE FlAddAt(a, b, IF a.e < b.e THEN a.e ELSE b.e)

\* a < b
FlLt(a, b) ==
    IF a.sign # b.sign THEN a.sign < b.sign
    ELSE IF a.sign = 1 THEN FlMagLt(a, b)
    ELSE IF a.sign = -1 THEN FlMagLt(b, a)
    ELSE FALSE

FlLe(a, b) == ~FlLt(b, a)
FlGt(a, b) == FlLt(b, a)
FlGe(a, b) == ~FlLt(a, b)

\* The double a decimal literal or a parsed setting denotes.
ToDouble(x) == FlOf(x.n, x.d)

\* PortfolioManager.getTotalValue in doubles.
RECURSIVE SumPositionValuesDouble(_, _)
SumPositionValuesDouble(total, ps) ==
    IF ps = <<>> THEN total
    ELSE SumPositionValuesDouble(
             FlAdd(total, FlMul(ToDouble(ps[1].quantity), ToDouble(ps[1].currentPrice))),
             Tail(ps))

getTotalValueDouble == SumPositionValuesDouble(ToDouble(availableBalance), positions)

\* PortfolioManager.canAfford in doubles.
canAffordCost(cost) ==
    FlGe(ToDouble(availableBalance), FlAdd(cost, FlMul(cost, FlOf(1, 100))))

canAffordDouble(symbol, quantity, price) == canAffordCost(FlMul(quantity, price))

\* positionSizePercent of assessTradeRisk.
positionSizePercentDouble(quantity, price, totalValue) ==
    FlMul(FlDiv(FlMul(quantity, price), totalValue), FlOf(100, 1))

\* recommendedQuantity of assessTradeRisk.
recommendedQuantityDouble(price, totalValue) ==
    FlDiv(FlMul(totalValue, FlDiv(ToDouble(limits.maxPositionSize), FlOf(100, 1))), price)

\* The gates of assessTradeRisk for the total value it has read, in doubles.
assessDoubleAt(totalValue, pnl, symbol, side, quantity, price) ==
    IF FlLe(ToDouble(pnl),
            FlNeg(FlMul(totalValue, FlDiv(ToDouble(limits.maxDailyLoss), FlOf(100, 1)))))
    THEN Rejected(DailyLoss, NoSize)
    ELSE IF FlGt(positionSizePercentDouble(quantity, price, totalValue),
                 ToDouble(limits.maxPositionSize))
    THEN Rejected(TooLarge, <<recommendedQuantityDouble(price, totalValue)>>)
    ELSE IF Len(positions) >= limits.maxOpenPositions
    THEN Rejected(TooMany, NoSize)
    ELSE IF side = "BUY" /\ ~canAffordDouble(symbol, quantity, price)
    THEN Rejected(Insufficient, NoSize)
    ELSE Allowed

\* The body of assessTradeRisk after the daily reset, in doubles.
assessDouble(pnl, symbol, side, quantity, price) ==
    assessDoubleAt(getTotalValueDouble, pnl, symbol, side, quantity, price)

\* RiskManager.assessTradeRisk on doubles.
assessTradeRiskDouble(symbol, side, quantity, price) ==
    LET reset == resetDailyTracking(dailyPnL, dailyResetTime, now)
    IN  /\ dailyPnL' = reset.dailyPnL
        /\ dailyResetTime' = reset.dailyResetTime
        /\ last' = [op |-> "assessTradeRisk",
                    arg |-> [symbol |-> symbol, side |-> side,
                             quantity |-> quantity, price |-> price],
                    res |-> assessDouble(reset.dailyPnL, symbol, side, quantity, price)]
        /\ UNCHANGED <<strategy, executor, positions, trades, initialBalance, availableBalance, limits, now>>

DoubleBalances == {Num(250), Num(500), Num(1000), Num(2000)}

DoublePrices == {Num(p) : p \in 1..12} \cup {Frac(3, 10), Num(100)}

DoubleQuantities == {Num(3), Num(100)}

InitDouble == \E balance \in DoubleBalances : Constructed(balance, DefaultLimits, 1)

\* An assessment of a BUY whose size and price are decimal amounts.
AssessDouble ==
    \E quantity \in DoubleQuantities, price \in DoublePrices :
        assessTradeRiskDouble("BTCUSDT", "BUY", ToDouble(quantity), ToDouble(price)) /\ UNCHANGED bot

\* The assessment again, at the size the last one recommended.
AssessRecommended ==
    /\ last.op = "assessTradeRisk"
    /\ last.res.recommendedSize # NoSize
    /\ assessTradeRiskDouble(last.arg.symbol, last.arg.side,
                             last.res.recommendedSize[1], last.arg.price)
    /\ UNCHANGED bot

NextDouble == AssessDouble \/ AssessRecommended

SpecDouble == InitDouble /\ [][NextDouble]_vars

\* C6: when the daily-loss gate passes and (quantity * price / totalValue)
\* * 100 exceeds maxPositionSize, the assessment is rejected with
\* recommendedSize = (totalValue * maxPositionSize / 100) / price; a trade of
\* that size at the same price and total value is not rejected by the
\* position-size gate; and with balance 1000, no positions, maxPositionSize
\* 20 and price 100 a BUY of 3 is rejected with recommendedSize 2.
C6_RecommendedSizePasses ==
    last.op = "assessTradeRisk" =>
        LET totalValue == getTotalValueDouble
            percent == positionSizePercentDouble(last.arg.quantity, last.arg.price,
                                                 totalValue)
            size == recommendedQuantityDouble(last.arg.price, totalValue)
        IN  /\ (/\ last.res.reason # DailyLoss
                /\ FlGt(percent, ToDouble(limits.maxPositionSize))) =>
                   /\ ~last.res.allowed
                   /\ last.res.recommendedSize = <<size>>
            /\ last.arg.quantity = size => last.res.reason # TooLarge
            /\ (/\ availableBalance = Num(1000)
                /\ positions = <<>>
                /\ limits.maxPositionSize = Num(20)
                /\ last.arg.price = ToDouble(Num(100))
                /\ last.arg.quantity = ToDouble(Num(3))) =>
                   /\ ~last.res.allowed
                   /\ last.res.recommendedSize = <<ToDouble(Num(2))>>

====
